---- MODULE Spec2Model ----
(***************************************************************************)
(* Connect-4 bitboard game model (game_manager.c) and the MCTS engine      *)
(* built on it (mcts.c).                                                   *)
(*                                                                         *)
(* A grid_t (int64_t) word is modelled as the set of the positions of its  *)
(* set bits: x | y is x \cup y, x & y is x \cap y, x & ~y is x \ y and     *)
(* BIT_ONE << k is {k}.                                                    *)
(***************************************************************************)
EXTENDS Integers, Sequences, FiniteSets, Bags, TLC

VARIABLES
    shift_ub,   \* what the build made of the undefined shift in is_their_turn_to_play
    game,       \* the game_t the caller owns
    ret,        \* {return value of the latest call on game}, {} before any call
    moves,      \* number of accepted moves explored from the start position
    eng,        \* the MCTS engine: PLAYING_AS, MAX_VISITS, tree_root and its tree
    call,       \* the latest init_MCTS / input_MCTS call and what it did
    heap,       \* the game_t objects allocated by copy, by address
    step        \* where a call of the engine followed statement by statement stands

vars == <<shift_ub, game, ret, moves, eng, call, heap, step>>

-----------------------------------------------------------------------------
(* game_manager.h constants *)

PLAYER_A == 0
PLAYER_B == 1
DRAW == 2
ARG_ERROR == -64
MEM_ERROR == -63
ROW_LENGTH == 7
COL_HEIGHT == 6

Cols == 0 .. (ROW_LENGTH - 1)
Rows == 0 .. (COL_HEIGHT - 1)

(* game_manager.c constants, as bit sets *)
BIT_ONE == {0}
TURN_BIT == {62}
WIN_BIT == {61}

\* BIT_ONE << offset
Shl(offset) == {offset}

\* every bit of the top row: 0x7F << ROW_LENGTH*(COL_HEIGHT-1)
TopRow == { ROW_LENGTH * (COL_HEIGHT - 1) + i : i \in 0 .. (ROW_LENGTH - 1) }

-----------------------------------------------------------------------------
(* Bounds of the exploration *)

\* accepted moves explored from each start position
MaxMoves == 4

-----------------------------------------------------------------------------
(* game_manager.c helpers *)

get_player_grid(g, player) == IF player = PLAYER_A THEN g.gridA ELSE g.gridB

set_player_grid(g, player, grid) ==
    IF player = PLAYER_A THEN [g EXCEPT !.gridA = grid] ELSE [g EXCEPT !.gridB = grid]

\* (player_grid & TURN_BIT) >> TURN_BIT shifts a 64-bit word by 2^62 places,
\* which is undefined.  A build that takes the count modulo 64 shifts by 0
\* and yields the turn bit ("wrap"); a build that folds the over-wide shift
\* yields 0 whatever the grid holds ("zero").
ShiftOutcomes == {"wrap", "zero"}

is_their_turn_to_play(player_grid) ==
    IF shift_ub = "wrap" THEN (player_grid \cap TURN_BIT) # {} ELSE FALSE

\* an offset that is one bit too high
compute_offset_one_up(col, row) == (1 + row) * ROW_LENGTH - col

compute_offset(col, row) == (1 + row) * ROW_LENGTH - col - 1

\* vertical loop: consecutive set bits from offset downwards
RECURSIVE VerticalRun(_, _)
VerticalRun(player_grid, offset) ==
    IF offset >= 0 /\ offset \in player_grid
    THEN 1 + VerticalRun(player_grid, offset - ROW_LENGTH)
    ELSE 0

\* horizontal loop: offsets offset .. last, counter reset on a clear bit
RECURSIVE HorizontalScan(_, _, _, _)
HorizontalScan(player_grid, offset, last, counter) ==
    IF offset >= last THEN FALSE
    ELSE LET c == IF offset \in player_grid THEN counter + 1 ELSE 0
         IN  IF c >= 4 THEN TRUE
             ELSE HorizontalScan(player_grid, offset + 1, last, c)

\* diagonal loops: offset advances by increment, curr_col by colstep
RECURSIVE DiagonalScan(_, _, _, _, _, _)
DiagonalScan(player_grid, offset, increment, curr_col, colstep, counter) ==
    IF ~(offset < ROW_LENGTH * COL_HEIGHT /\ curr_col < ROW_LENGTH /\ curr_col >= 0)
    THEN FALSE
    ELSE LET c == IF offset \in player_grid THEN counter + 1 ELSE 0
         IN  IF c >= 4 THEN TRUE
             ELSE DiagonalScan(player_grid, offset + increment, increment,
                               curr_col + colstep, colstep, c)

makes_new_connect4(g, col, player_grid) ==
    LET row_index == g.cols_occupation[col] - 1
        here == compute_offset(col, row_index)
        distUR == IF row_index < col THEN row_index ELSE col
        distUL == IF row_index < ROW_LENGTH - 1 - col
                  THEN row_index ELSE ROW_LENGTH - 1 - col
    IN  \/ VerticalRun(player_grid, here) >= 4
        \/ HorizontalScan(player_grid, row_index * ROW_LENGTH,
                          row_index * ROW_LENGTH + ROW_LENGTH, 0)
        \/ DiagonalScan(player_grid, here - (ROW_LENGTH - 1) * distUR,
                        ROW_LENGTH - 1, col - distUR, 1, 0)
        \/ DiagonalScan(player_grid, here - (ROW_LENGTH + 1) * distUL,
                        ROW_LENGTH + 1, col + distUL, -1, 0)

-----------------------------------------------------------------------------
(* game_manager.c API *)

game_init ==
    [gridA |-> TURN_BIT, gridB |-> {}, cols_occupation |-> [c \in Cols |-> 0]]

copy(g) ==
    [gridA |-> g.gridA, gridB |-> g.gridB,
     cols_occupation |-> [c \in Cols |-> g.cols_occupation[c]]]

now_playing(g) == IF (g.gridA \cap TURN_BIT) # {} THEN PLAYER_A ELSE PLAYER_B

\* winner that takes a full top row for an unfinished game
winner_without_draw(g) ==
    IF (g.gridA \cap WIN_BIT) # {} THEN PLAYER_A
    ELSE IF (g.gridB \cap WIN_BIT) # {} THEN PLAYER_B
    ELSE -1

winner(g) ==
    IF (g.gridA \cap WIN_BIT) # {} THEN PLAYER_A
    ELSE IF (g.gridB \cap WIN_BIT) # {} THEN PLAYER_B
    ELSE IF TopRow \subseteq (g.gridA \cup g.gridB) THEN DRAW
    ELSE -1

\* play with the turn test made after the disk is added
play_turn_test_late(g, player, col) ==
    IF player # PLAYER_A /\ player # PLAYER_B THEN [res |-> ARG_ERROR, game |-> g]
    ELSE IF col < 0 \/ col >= ROW_LENGTH THEN [res |-> ARG_ERROR, game |-> g]
    ELSE IF winner(g) >= 0 THEN [res |-> -3, game |-> g]
    ELSE IF g.cols_occupation[col] >= COL_HEIGHT THEN [res |-> -2, game |-> g]
    ELSE
      LET offset == compute_offset(col, g.cols_occupation[col])
          this1 == get_player_grid(g, player) \cup Shl(offset)
          g1 == [set_player_grid(g, player, this1) EXCEPT !.cols_occupation[col] = @ + 1]
      IN  IF ~is_their_turn_to_play(get_player_grid(g, player))
          THEN [res |-> -1, game |-> g1]
          ELSE LET this2 == this1 \ TURN_BIT
                   g2 == set_player_grid(set_player_grid(g1, player, this2), 1 - player,
                                         get_player_grid(g, 1 - player) \cup TURN_BIT)
               IN  IF makes_new_connect4(g2, col, this2)
                   THEN [res |-> 1, game |-> set_player_grid(g2, player, this2 \cup WIN_BIT)]
                   ELSE IF winner(g2) = DRAW THEN [res |-> 2, game |-> g2]
                   ELSE [res |-> 0, game |-> g2]

\* play that hands the turn over only when the move does not win
play_win_keeps_turn(g, player, col) ==
    IF player # PLAYER_A /\ player # PLAYER_B THEN [res |-> ARG_ERROR, game |-> g]
    ELSE IF col < 0 \/ col >= ROW_LENGTH THEN [res |-> ARG_ERROR, game |-> g]
    ELSE IF winner(g) >= 0 THEN [res |-> -3, game |-> g]
    ELSE IF g.cols_occupation[col] >= COL_HEIGHT THEN [res |-> -2, game |-> g]
    ELSE IF ~is_their_turn_to_play(get_player_grid(g, player)) THEN [res |-> -1, game |-> g]
    ELSE
      LET offset == compute_offset(col, g.cols_occupation[col])
          this0 == get_player_grid(g, player) \cup Shl(offset)
          g0 == [set_player_grid(g, player, this0) EXCEPT !.cols_occupation[col] = @ + 1]
          this1 == this0 \ TURN_BIT
          g1 == set_player_grid(set_player_grid(g0, player, this1), 1 - player,
                                get_player_grid(g, 1 - player) \cup TURN_BIT)
      IN  IF makes_new_connect4(g0, col, this0)
          THEN [res |-> 1, game |-> set_player_grid(g0, player, this0 \cup WIN_BIT)]
          ELSE IF winner(g1) = DRAW THEN [res |-> 2, game |-> g1]
          ELSE [res |-> 0, game |-> g1]

\* play that leaves the column counter alone when the move wins
play_win_not_counted(g, player, col) ==
    IF player # PLAYER_A /\ player # PLAYER_B THEN [res |-> ARG_ERROR, game |-> g]
    ELSE IF col < 0 \/ col >= ROW_LENGTH THEN [res |-> ARG_ERROR, game |-> g]
    ELSE IF winner(g) >= 0 THEN [res |-> -3, game |-> g]
    ELSE IF g.cols_occupation[col] >= COL_HEIGHT THEN [res |-> -2, game |-> g]
    ELSE IF ~is_their_turn_to_play(get_player_grid(g, player)) THEN [res |-> -1, game |-> g]
    ELSE
      LET offset == compute_offset(col, g.cols_occupation[col])
          this1 == (get_player_grid(g, player) \cup Shl(offset)) \ TURN_BIT
          other1 == get_player_grid(g, 1 - player) \cup TURN_BIT
          g0 == set_player_grid(set_player_grid(g, player, this1), 1 - player, other1)
          g1 == [g0 EXCEPT !.cols_occupation[col] = @ + 1]
      IN  IF makes_new_connect4(g1, col, this1)
          THEN [res |-> 1, game |-> set_player_grid(g0, player, this1 \cup WIN_BIT)]
          ELSE IF winner(g1) = DRAW THEN [res |-> 2, game |-> g1]
          ELSE [res |-> 0, game |-> g1]

\* play that looks for the draw before it looks for the four in a row
play_draw_before_win(g, player, col) ==
    IF player # PLAYER_A /\ player # PLAYER_B THEN [res |-> ARG_ERROR, game |-> g]
    ELSE IF col < 0 \/ col >= ROW_LENGTH THEN [res |-> ARG_ERROR, game |-> g]
    ELSE IF winner(g) >= 0 THEN [res |-> -3, game |-> g]
    ELSE IF g.cols_occupation[col] >= COL_HEIGHT THEN [res |-> -2, game |-> g]
    ELSE IF ~is_their_turn_to_play(get_player_grid(g, player)) THEN [res |-> -1, game |-> g]
    ELSE
      LET offset == compute_offset(col, g.cols_occupation[col])
          this1 == (get_player_grid(g, player) \cup Shl(offset)) \ TURN_BIT
          other1 == get_player_grid(g, 1 - player) \cup TURN_BIT
          g1 == [set_player_grid(set_player_grid(g, player, this1), 1 - player, other1)
                   EXCEPT !.cols_occupation[col] = @ + 1]
      IN  IF winner(g1) = DRAW THEN [res |-> 2, game |-> g1]
          ELSE IF makes_new_connect4(g1, col, this1)
          THEN [res |-> 1, game |-> set_player_grid(g1, player, this1 \cup WIN_BIT)]
          ELSE [res |-> 0, game |-> g1]

\* play: the returned value and the game as the call leaves it
play(g, player, col) ==
    IF player # PLAYER_A /\ player # PLAYER_B THEN [res |-> ARG_ERROR, game |-> g]
    ELSE IF col < 0 \/ col >= ROW_LENGTH THEN [res |-> ARG_ERROR, game |-> g]
    ELSE IF winner(g) >= 0 THEN [res |-> -3, game |-> g]
    ELSE IF g.cols_occupation[col] >= COL_HEIGHT THEN [res |-> -2, game |-> g]
    ELSE IF ~is_their_turn_to_play(get_player_grid(g, player)) THEN [res |-> -1, game |-> g]
    ELSE
      LET offset == compute_offset(col, g.cols_occupation[col])
          this1 == (get_player_grid(g, player) \cup Shl(offset)) \ TURN_BIT
          other1 == get_player_grid(g, 1 - player) \cup TURN_BIT
          g1 == [set_player_grid(set_player_grid(g, player, this1), 1 - player, other1)
                   EXCEPT !.cols_occupation[col] = @ + 1]
      IN  IF makes_new_connect4(g1, col, this1)
          THEN [res |-> 1, game |-> set_player_grid(g1, player, this1 \cup WIN_BIT)]
          ELSE IF winner(g1) = DRAW THEN [res |-> 2, game |-> g1]
          ELSE [res |-> 0, game |-> g1]

play_auto(g, col) ==
    IF is_their_turn_to_play(g.gridA) THEN play(g, PLAYER_A, col)
    ELSE play(g, PLAYER_B, col)

play_auto_without_update(g, col) == play_auto(copy(g), col).res

\* a pointer result: NULL, or the object pointed to
Null == [null |-> TRUE]
Ptr(x) == [null |-> FALSE, val |-> x]

play_copy_auto(g, col) ==
    LET r == play_auto(copy(g), col)
    IN  IF r.res < 0 THEN Null ELSE Ptr(r.game)

-----------------------------------------------------------------------------
(* mcts.c: the search tree                                                 *)
(*                                                                         *)
(* The tree under tree_root is a function from paths to nodes: the root is *)
(* <<>> and the child of node p under column c is Append(p, c), present    *)
(* when that path is in the domain.  A node's parent is its path less the  *)
(* last column.  Allocation is taken to succeed.  Counters are far below   *)
(* 2^32 within the bounds explored.                                        *)

MCTS_FAIL == -2
MEMERROR == -128

\* the budgets handed to whole calls of init_MCTS run to MaxBudget, those of
\* the calls followed statement by statement to MaxStepBudget
MaxBudget == 8
MaxStepBudget == 9
\* calls of input_MCTS explored from a start engine
MaxInputs == 3
\* the playouts of a game with at most ExactPlayoutCells free cells are
\* followed move by move
ExactPlayoutCells == 6

IsPrefix(q, p) == Len(q) <= Len(p) /\ SubSeq(p, 1, Len(q)) = q

ChildCols(t, p) == { c \in Cols : Append(p, c) \in DOMAIN t }

\* a leaf test that takes a node of two visits for a leaf
is_leaf_up_to_two_visits(t, p) == t[p].nb_visits <= 2 \/ ChildCols(t, p) = {}

is_leaf(t, p) == t[p].nb_visits <= 1 \/ ChildCols(t, p) = {}

\* the playout loop ends only when a move wins or draws: a build whose turn
\* test never passes plays no move, and the loop of an unfinished game spins
playout_returns(init_state) == winner(init_state) >= 0 \/ shift_ub = "wrap"

\* favourable: the random playout of an unfinished game ends with PLAYING_AS winning
MTCS_simulation(init_state, as, favourable) ==
    IF winner(init_state) >= 0
    THEN (IF winner(init_state) # DRAW THEN winner(init_state) ELSE 0)
    ELSE IF favourable THEN 1 ELSE 0

\* a node creation that starts the new node with two visits
create_node_with_two_visits(state, as, favourable) ==
    [state |-> state, nb_wins |-> MTCS_simulation(state, as, favourable), nb_visits |-> 2]

create_node_and_simulate(state, as, favourable) ==
    [state |-> state, nb_wins |-> MTCS_simulation(state, as, favourable), nb_visits |-> 1]

\* the free cells of a game
RECURSIVE CellsLeft(_, _)
CellsLeft(g, col) ==
    IF col >= ROW_LENGTH THEN 0
    ELSE (COL_HEIGHT - g.cols_occupation[col]) + CellsLeft(g, col + 1)

\* the winners the while loop of a playout can end with: random() %
\* ROW_LENGTH and the columns tried after a full one reach every column that
\* is not full, and the loop stops at the move that returns 1 or 2
RECURSIVE PlayoutWinners(_)
PlayoutWinners(g) ==
    UNION { IF r.res = 1 \/ r.res = 2 THEN {winner(r.game)}
            ELSE PlayoutWinners(r.game)
            : r \in { x \in { play_auto(copy(g), c) : c \in Cols } : x.res \in {0, 1, 2} } }

\* what the playout of a new node may come to over the values of random():
\* with few cells free every playout is followed, with more of them both a
\* win of PLAYING_AS and another end are taken to be within reach
Favourable(state, as) ==
    IF winner(state) >= 0 THEN {FALSE}
    ELSE IF CellsLeft(state, 0) <= ExactPlayoutCells
    THEN { w = as : w \in PlayoutWinners(state) }
    ELSE BOOLEAN

\* n->nb_visits += dv; n->nb_wins += dw for n = p and every ancestor of p
AddToAncestors(t, p, dv, dw) ==
    [q \in DOMAIN t |->
        IF IsPrefix(q, p)
        THEN [t[q] EXCEPT !.nb_visits = @ + dv, !.nb_wins = @ + dw]
        ELSE t[q]]

AddNode(t, p, node) == [q \in DOMAIN t \cup {p} |-> IF q = p THEN node ELSE t[q]]

-----------------------------------------------------------------------------
(* selection *)

\* The doubles of compute_UCB are kept as decimal fractions of sixteen places
\* in five limbs <<units, 10^-4, 10^-8, 10^-12, 10^-16>>: the scores of two
\* children of one parent with up to 256 visits differ by more than 10^-11
\* when they differ at all, so the limbs order them as the doubles do.
LIMB == 10000

\* sqrt(2*log(N)) for N = 1 .. 256, cut after sixteen decimals
SqrtTwoLog ==
    <<<<0, 0, 0, 0, 0>>, <<1, 1774, 1002, 2515, 4746>>,
      <<1, 4823, 380, 7367, 5110>>, <<1, 6651, 922, 2315, 3955>>,
      <<1, 7941, 2257, 7994, 1014>>, <<1, 8930, 1847, 2824, 8454>>,
      <<1, 9727, 6970, 2248, 7512>>, <<2, 393, 3398, 337, 6179>>,
      <<2, 962, 9414, 7936, 4098>>, <<2, 1459, 6602, 6289, 3472>>,
      <<2, 1899, 2934, 7170, 727>>, <<2, 2293, 780, 7274, 7156>>,
      <<2, 2649, 2797, 1243, 9142>>, <<2, 2974, 1477, 7359, 6558>>,
      <<2, 3272, 5168, 4327, 3355>>, <<2, 3548, 2004, 5030, 9493>>,
      <<2, 3804, 2573, 6735, 4336>>, <<2, 4043, 1768, 1961, 4186>>,
      <<2, 4267, 104, 4284, 7880>>, <<2, 4477, 4683, 680, 8165>>,
      <<2, 4675, 9901, 262, 1710>>, <<2, 4863, 7987, 9808, 5202>>,
      <<2, 5041, 9416, 8162, 3450>>, <<2, 5211, 3221, 8011, 5606>>,
      <<2, 5372, 7248, 2359, 393>>, <<2, 5526, 8350, 4871, 4840>>,
      <<2, 5674, 2550, 6613, 3190>>, <<2, 5815, 5166, 9122, 7405>>,
      <<2, 5951, 918, 742, 2954>>, <<2, 6081, 4009, 6567, 7266>>,
      <<2, 6206, 8205, 339, 2418>>, <<2, 6327, 6884, 7734, 1593>>,
      <<2, 6444, 3096, 3918, 8844>>, <<2, 6556, 9596, 3251, 8784>>,
      <<2, 6665, 8885, 5256, 6230>>, <<2, 6771, 3239, 8091, 7006>>,
      <<2, 6873, 4735, 8509, 5859>>, <<2, 6972, 5273, 5553, 8582>>,
      <<2, 7068, 6595, 3877, 1573>>, <<2, 7162, 303, 1481, 2389>>,
      <<2, 7252, 7872, 5820, 2812>>, <<2, 7341, 666, 1519, 7616>>,
      <<2, 7426, 9944, 2408, 3592>>, <<2, 7510, 6875, 110, 8587>>,
      <<2, 7592, 2543, 1083, 9916>>, <<2, 7671, 7957, 3677, 5360>>,
      <<2, 7749, 4057, 6556, 5714>>, <<2, 7825, 1720, 9617, 1807>>,
      <<2, 7899, 1766, 8358, 9165>>, <<2, 7971, 4962, 2536, 5371>>,
      <<2, 8042, 2025, 9795, 6979>>, <<2, 8111, 3632, 4898, 3238>>,
      <<2, 8179, 415, 5059, 9700>>, <<2, 8245, 2971, 1850, 9036>>,
      <<2, 8310, 1861, 52, 7389>>, <<2, 8373, 7614, 3811, 4437>>,
      <<2, 8436, 731, 383, 9602>>, <<2, 8497, 1683, 1738, 3463>>,
      <<2, 8557, 917, 4235, 2614>>, <<2, 8615, 8856, 6590, 9768>>,
      <<2, 8673, 5901, 6298, 2072>>, <<2, 8730, 2432, 4660, 3713>>,
      <<2, 8785, 8810, 576, 9243>>, <<2, 8840, 5377, 3201, 7660>>,
      <<2, 8894, 2460, 3583, 860>>, <<2, 8947, 369, 5381, 749>>,
      <<2, 8998, 9400, 4749, 4722>>, <<2, 9049, 9834, 9457, 7433>>,
      <<2, 9100, 1941, 7322, 5921>>, <<2, 9149, 5977, 4010, 3924>>,
      <<2, 9198, 2187, 265, 8268>>, <<2, 9246, 804, 8616, 4484>>,
      <<2, 9293, 2054, 9597, 9408>>, <<2, 9339, 6151, 7540, 4634>>,
      <<2, 9385, 3300, 5952, 5655>>, <<2, 9430, 3698, 2535, 6701>>,
      <<2, 9474, 7533, 3859, 244>>, <<2, 9518, 4986, 9722, 2363>>,
      <<2, 9561, 6232, 7230, 259>>, <<2, 9604, 1437, 4601, 5967>>,
      <<2, 9646, 761, 4735, 221>>, <<2, 9687, 4358, 8545, 2462>>,
      <<2, 9728, 2377, 8092, 6732>>, <<2, 9768, 4960, 9517, 8586>>,
      <<2, 9808, 2245, 5796, 4925>>, <<2, 9847, 4363, 9327, 6752>>,
      <<2, 9886, 1443, 4367, 3988>>, <<2, 9924, 3606, 9318, 1755>>,
      <<2, 9962, 972, 8884, 8589>>, <<2, 9999, 3655, 6105, 9004>>,
      <<3, 36, 1765, 4268, 5488>>, <<3, 72, 5408, 8715, 8305>>,
      <<3, 108, 4688, 8552, 5401>>, <<3, 143, 9704, 8256, 9159>>,
      <<3, 179, 552, 9204, 1667>>, <<3, 213, 7326, 1107, 5501>>,
      <<3, 248, 114, 3382, 2828>>, <<3, 281, 9004, 6437, 1690>>,
      <<3, 315, 4081, 2898, 4804>>, <<3, 348, 5425, 8770, 2927>>,
      <<3, 381, 3117, 4535, 1810>>, <<3, 413, 7232, 6198, 9055>>,
      <<3, 445, 7845, 6282, 4574>>, <<3, 477, 5028, 4764, 6073>>,
      <<3, 508, 8850, 9977, 8796>>, <<3, 539, 9380, 9460, 6764>>,
      <<3, 570, 6684, 768, 935>>, <<3, 601, 824, 2243, 8000>>,
      <<3, 631, 1863, 3755, 1941>>, <<3, 660, 9861, 7393, 9077>>,
      <<3, 690, 4877, 8143, 5909>>, <<3, 719, 6968, 4516, 7904>>,
      <<3, 748, 6188, 9162, 6142>>, <<3, 777, 2592, 9446, 7710>>,
      <<3, 805, 6232, 8005, 4731>>, <<3, 833, 7159, 3274, 5973>>,
      <<3, 861, 5421, 9995, 4156>>, <<3, 889, 1068, 9698, 1222>>,
      <<3, 916, 4147, 1164, 3164>>, <<3, 943, 4702, 869, 5229>>,
      <<3, 970, 2778, 3406, 7750>>, <<3, 996, 8419, 1892, 2180>>,
      <<3, 1023, 1666, 8353, 6410>>, <<3, 1049, 2562, 4102, 7857>>,
      <<3, 1075, 1146, 92, 2395>>, <<3, 1100, 7456, 7257, 6656>>,
      <<3, 1126, 1532, 6846, 885>>, <<3, 1151, 3411, 730, 9062>>,
      <<3, 1176, 3128, 1714, 2671>>, <<3, 1201, 719, 3817, 4119>>,
      <<3, 1225, 6219, 2559, 5498>>, <<3, 1249, 9661, 5225, 8056>>,
      <<3, 1274, 1079, 1124, 7456>>, <<3, 1298, 504, 1835, 9643>>,
      <<3, 1321, 7968, 1448, 1858>>, <<3, 1345, 3501, 6788, 3120>>,
      <<3, 1368, 7134, 7641, 8266>>, <<3, 1391, 8896, 6964, 9403>>,
      <<3, 1414, 8816, 1088, 8466>>, <<3, 1437, 6920, 9916, 4354>>,
      <<3, 1460, 3238, 7111, 7945>>, <<3, 1482, 7796, 282, 8149>>,
      <<3, 1505, 619, 1157, 1947>>, <<3, 1527, 1733, 5752, 1288>>,
      <<3, 1549, 1164, 4537, 9494>>, <<3, 1570, 8936, 2595, 9770>>,
      <<3, 1592, 5072, 9770, 8221>>, <<3, 1613, 9598, 817, 3714>>,
      <<3, 1635, 2534, 5542, 6776>>, <<3, 1656, 3904, 8942, 9636>>,
      <<3, 1677, 3731, 1335, 9397>>, <<3, 1698, 2034, 8488, 6257>>,
      <<3, 1718, 8837, 1740, 8579>>, <<3, 1739, 4158, 8124, 6551>>,
      <<3, 1759, 8020, 479, 6083>>, <<3, 1780, 440, 7564, 4505>>,
      <<3, 1800, 1440, 4164, 9585>>, <<3, 1820, 1038, 1198, 3287>>,
      <<3, 1839, 9252, 5814, 1645>>, <<3, 1859, 6102, 1492, 2049>>,
      <<3, 1879, 1604, 8136, 9213>>, <<3, 1898, 5778, 2169, 998>>,
      <<3, 1917, 8639, 6614, 5235>>, <<3, 1937, 206, 1189, 8657>>,
      <<3, 1956, 494, 2385, 8953>>, <<3, 1974, 9520, 3548, 970>>,
      <<3, 1993, 7300, 4954, 8005>>, <<3, 2012, 3850, 3892, 9101>>,
      <<3, 2030, 9185, 4731, 3230>>, <<3, 2049, 3320, 8992, 1193>>,
      <<3, 2067, 6271, 5419, 6051>>, <<3, 2085, 8052, 47, 2850>>,
      <<3, 2103, 8676, 6262, 8373>>, <<3, 2121, 8159, 4871, 1645>>,
      <<3, 2139, 6514, 4155, 5846>>, <<3, 2157, 3754, 9937, 2307>>,
      <<3, 2174, 9894, 5632, 7189>>, <<3, 2192, 4946, 2310, 1469>>,
      <<3, 2209, 8922, 8743, 4787>>, <<3, 2227, 1837, 1465, 3722>>,
      <<3, 2244, 3701, 4818, 5018>>, <<3, 2261, 4528, 1005, 4277>>,
      <<3, 2278, 4329, 137, 602>>, <<3, 2295, 3116, 279, 7659>>,
      <<3, 2312, 900, 7501, 1628>>, <<3, 2328, 7694, 5914, 6450>>,
      <<3, 2345, 3508, 7722, 6812>>, <<3, 2361, 8354, 3258, 9262>>,
      <<3, 2378, 2242, 1029, 1837>>, <<3, 2394, 5182, 7751, 2589>>,
      <<3, 2410, 7186, 8393, 7355>>, <<3, 2426, 8264, 6213, 7122>>,
      <<3, 2442, 8426, 2793, 5319>>, <<3, 2458, 7681, 8076, 5357>>,
      <<3, 2474, 6041, 401, 8717>>, <<3, 2490, 3513, 6538, 3899>>,
      <<3, 2506, 109, 1717, 6498>>, <<3, 2521, 5836, 9666, 700>>,
      <<3, 2537, 706, 2636, 2454>>, <<3, 2552, 4726, 1437, 4585>>,
      <<3, 2567, 7905, 5465, 4074>>, <<3, 2583, 253, 2731, 1780>>,
      <<3, 2598, 1777, 9889, 4794>>, <<3, 2613, 2488, 2266, 1677>>,
      <<3, 2628, 2392, 3885, 778>>, <<3, 2643, 1498, 7494, 1851>>,
      <<3, 2657, 9815, 4591, 1159>>, <<3, 2672, 7350, 5448, 266>>,
      <<3, 2687, 4111, 9135, 8703>>, <<3, 2702, 107, 3548, 681>>,
      <<3, 2716, 5344, 5423, 6030>>, <<3, 2730, 9831, 369, 5533>>,
      <<3, 2745, 3574, 2883, 808>>, <<3, 2759, 6581, 6372, 8911>>,
      <<3, 2773, 8860, 3180, 1791>>, <<3, 2788, 417, 4599, 762>>,
      <<3, 2802, 1260, 896, 6124>>, <<3, 2816, 1395, 1332, 2065>>,
      <<3, 2830, 829, 4176, 6994>>, <<3, 2843, 9569, 6730, 9409>>,
      <<3, 2857, 7622, 5343, 9453>>, <<3, 2871, 4994, 5430, 6246>>,
      <<3, 2885, 1692, 1489, 1136>>, <<3, 2898, 7721, 7117, 6965>>,
      <<3, 2912, 3089, 5031, 3468>>, <<3, 2925, 7801, 7077, 8902>>,
      <<3, 2939, 1864, 4253, 8020>>, <<3, 2952, 5283, 6719, 6471>>,
      <<3, 2965, 8065, 3815, 1738>>, <<3, 2979, 215, 4074, 699>>,
      <<3, 2992, 1739, 5238, 3900>>, <<3, 3005, 2643, 4272, 6631>>,
      <<3, 3018, 2932, 7377, 6888>>, <<3, 3031, 2613, 4, 304>>,
      <<3, 3044, 1689, 6865, 2121>>, <<3, 3057, 168, 1950, 6293>>,
      <<3, 3069, 8053, 8538, 1786>>, <<3, 3082, 5351, 9206, 6144>>,
      <<3, 3095, 2067, 5847, 6402>>, <<3, 3107, 8205, 9677, 7406>>,
      <<3, 3120, 3772, 1249, 7610>>, <<3, 3132, 8771, 464, 2411>>,
      <<3, 3145, 3207, 6580, 5083>>, <<3, 3157, 7086, 8227, 5383>>,
      <<3, 3170, 413, 3414, 5868>>, <<3, 3182, 3191, 9541, 5991>>,
      <<3, 3194, 5427, 3409, 4040>>, <<3, 3206, 7124, 1229, 6951>>,
      <<3, 3218, 8286, 8634, 8071>>, <<3, 3230, 8920, 687, 2901>>,
      <<3, 3242, 9028, 1889, 2888>>, <<3, 3254, 8615, 6191, 7299>>,
      <<3, 3266, 7686, 7003, 3223>>, <<3, 3278, 6245, 7199, 3766>>,
      <<3, 3290, 4296, 9130, 4454>>, <<3, 3302, 1844, 4630, 7910>>>>

\* 1/sqrt(n) for n = 1 .. 256, cut after sixteen decimals
InvSqrt ==
    <<<<1, 0, 0, 0, 0>>, <<0, 7071, 678, 1186, 5475>>,
      <<0, 5773, 5026, 9189, 6257>>, <<0, 5000, 0, 0, 0>>,
      <<0, 4472, 1359, 5499, 9579>>, <<0, 4082, 4829, 463, 8630>>,
      <<0, 3779, 6447, 3009, 2272>>, <<0, 3535, 5339, 593, 2737>>,
      <<0, 3333, 3333, 3333, 3333>>, <<0, 3162, 2776, 6016, 8379>>,
      <<0, 3015, 1134, 4577, 7636>>, <<0, 2886, 7513, 4594, 8128>>,
      <<0, 2773, 5009, 8112, 6145>>, <<0, 2672, 6124, 1912, 4243>>,
      <<0, 2581, 9888, 9747, 1611>>, <<0, 2500, 0, 0, 0>>,
      <<0, 2425, 3562, 5036, 3329>>, <<0, 2357, 226, 395, 5158>>,
      <<0, 2294, 1573, 3870, 5617>>, <<0, 2236, 679, 7749, 9789>>,
      <<0, 2182, 1789, 235, 9923>>, <<0, 2132, 71, 6355, 6104>>,
      <<0, 2085, 1441, 4057, 747>>, <<0, 2041, 2414, 5231, 9315>>,
      <<0, 2000, 0, 0, 0>>, <<0, 1961, 1613, 5138, 1840>>,
      <<0, 1924, 5008, 9729, 8752>>, <<0, 1889, 8223, 6504, 6136>>,
      <<0, 1856, 9533, 8177, 518>>, <<0, 1825, 7418, 5835, 553>>,
      <<0, 1796, 530, 2026, 7749>>, <<0, 1767, 7669, 5296, 6368>>,
      <<0, 1740, 7765, 5955, 6978>>, <<0, 1714, 9858, 5142, 5088>>,
      <<0, 1690, 3085, 945, 7033>>, <<0, 1666, 6666, 6666, 6666>>,
      <<0, 1643, 9898, 7305, 3572>>, <<0, 1622, 2142, 1130, 7625>>,
      <<0, 1601, 2815, 3805, 871>>, <<0, 1581, 1388, 3008, 4189>>,
      <<0, 1561, 7376, 1888, 6060>>, <<0, 1543, 334, 9962, 919>>,
      <<0, 1524, 9857, 332, 6046>>, <<0, 1507, 5567, 2288, 8818>>,
      <<0, 1490, 7119, 8499, 9859>>, <<0, 1474, 4195, 6154, 8971>>,
      <<0, 1458, 6499, 1497, 8945>>, <<0, 1443, 3756, 7297, 4064>>,
      <<0, 1428, 5714, 2857, 1428>>, <<0, 1414, 2135, 6237, 3095>>,
      <<0, 1400, 2800, 8402, 8009>>, <<0, 1386, 7504, 9056, 3072>>,
      <<0, 1373, 6056, 3948, 6890>>, <<0, 1360, 8276, 3487, 9543>>,
      <<0, 1348, 3997, 2492, 6484>>, <<0, 1336, 3062, 956, 2121>>,
      <<0, 1324, 5323, 5706, 5043>>, <<0, 1313, 643, 2859, 7225>>,
      <<0, 1301, 8891, 980, 8238>>, <<0, 1290, 9944, 4873, 5805>>,
      <<0, 1280, 3687, 9932, 8959>>, <<0, 1270, 12, 7000, 1905>>,
      <<0, 1259, 8815, 7669, 7424>>, <<0, 1250, 0, 0, 0>>,
      <<0, 1240, 3473, 4589, 2084>>, <<0, 1230, 9149, 979, 3327>>,
      <<0, 1221, 6944, 4356, 3052>>, <<0, 1212, 6781, 2518, 1664>>,
      <<0, 1203, 8585, 3085, 7692>>, <<0, 1195, 2286, 933, 4393>>,
      <<0, 1186, 7816, 5819, 3853>>, <<0, 1178, 5113, 197, 7579>>,
      <<0, 1170, 4114, 7196, 1305>>, <<0, 1162, 4763, 8743, 8192>>,
      <<0, 1154, 7005, 3837, 9251>>, <<0, 1147, 786, 6935, 2808>>,
      <<0, 1139, 6057, 6459, 6379>>, <<0, 1132, 2770, 3414, 4595>>,
      <<0, 1125, 879, 92, 6023>>, <<0, 1118, 339, 8874, 9894>>,
      <<0, 1111, 1111, 1111, 1111>>, <<0, 1104, 3152, 6074, 8465>>,
      <<0, 1097, 6425, 9989, 6903>>, <<0, 1091, 894, 5117, 9961>>,
      <<0, 1084, 6522, 8909, 3280>>, <<0, 1078, 3277, 3203, 4384>>,
      <<0, 1072, 1125, 3483, 7794>>, <<0, 1066, 35, 8177, 8052>>,
      <<0, 1059, 9978, 8000, 6359>>, <<0, 1054, 925, 5338, 9459>>,
      <<0, 1048, 2848, 3672, 1918>>, <<0, 1042, 5720, 7028, 5373>>,
      <<0, 1036, 9516, 9473, 425>>, <<0, 1031, 4212, 4625, 8793>>,
      <<0, 1025, 9783, 5208, 5154>>, <<0, 1020, 6207, 2615, 9657>>,
      <<0, 1015, 3461, 6513, 3619>>, <<0, 1010, 1525, 4455, 2210>>,
      <<0, 1005, 378, 1525, 9212>>, <<0, 1000, 0, 0, 0>>,
      <<0, 995, 371, 9020, 9989>>, <<0, 990, 1475, 4297, 6674>>,
      <<0, 985, 3292, 7816, 4293>>, <<0, 980, 5806, 7569, 920>>,
      <<0, 975, 9000, 7294, 8533>>, <<0, 971, 2858, 6235, 7264>>,
      <<0, 966, 7364, 8904, 5663>>, <<0, 962, 2504, 4864, 9376>>,
      <<0, 957, 8262, 8522, 1151>>, <<0, 953, 4625, 8924, 5592>>,
      <<0, 949, 1579, 9575, 2498>>, <<0, 944, 9111, 8252, 3068>>,
      <<0, 940, 7208, 6838, 3597>>, <<0, 936, 5858, 1158, 1693>>,
      <<0, 932, 5048, 824, 313>>, <<0, 928, 4766, 9088, 5259>>,
      <<0, 924, 5003, 2704, 2048>>, <<0, 920, 5746, 1789, 8323>>,
      <<0, 916, 6984, 9702, 8211>>, <<0, 912, 8709, 2917, 5276>>,
      <<0, 909, 909, 909, 909>>, <<0, 905, 3574, 6042, 5185>>,
      <<0, 901, 6696, 3466, 7432>>, <<0, 898, 265, 1013, 3874>>,
      <<0, 894, 4271, 9099, 9915>>, <<0, 890, 8708, 637, 4747>>,
      <<0, 887, 3565, 941, 6113>>, <<0, 883, 8834, 7648, 3184>>,
      <<0, 880, 4509, 632, 5623>>, <<0, 877, 580, 1930, 7029>>,
      <<0, 873, 7040, 5666, 1037>>, <<0, 870, 3882, 7977, 8489>>,
      <<0, 867, 1099, 6952, 4119>>, <<0, 863, 8684, 2558, 1360>>,
      <<0, 860, 6629, 6582, 3870>>, <<0, 857, 4929, 2571, 2544>>,
      <<0, 854, 3576, 5771, 6760>>, <<0, 851, 2565, 3075, 8748>>,
      <<0, 848, 1889, 2967, 9970>>, <<0, 845, 1542, 5472, 8516>>,
      <<0, 842, 1519, 2106, 6518>>, <<0, 839, 1813, 5829, 6689>>,
      <<0, 836, 2420, 1000, 7090>>, <<0, 833, 3333, 3333, 3333>>,
      <<0, 830, 4547, 9853, 7399>>, <<0, 827, 6058, 8860, 2367>>,
      <<0, 824, 7860, 9884, 2322>>, <<0, 821, 9949, 3652, 6786>>,
      <<0, 819, 2319, 2051, 9040>>, <<0, 816, 4965, 8092, 7726>>,
      <<0, 813, 7884, 5877, 1159>>, <<0, 811, 1071, 565, 3812>>,
      <<0, 808, 4520, 8345, 4443>>, <<0, 805, 8229, 6402, 5380>>,
      <<0, 803, 2193, 2890, 2498>>, <<0, 800, 6407, 6902, 5435>>,
      <<0, 798, 868, 8446, 7622>>, <<0, 795, 5572, 8417, 5730>>,
      <<0, 793, 515, 8571, 8144>>, <<0, 790, 5694, 1504, 2094>>,
      <<0, 788, 1104, 623, 9100>>, <<0, 785, 6742, 131, 8386>>,
      <<0, 783, 2604, 4998, 7957>>, <<0, 780, 8688, 944, 3030>>,
      <<0, 778, 4989, 4416, 1522>>, <<0, 776, 1505, 2570, 6332>>,
      <<0, 773, 8232, 3253, 4136>>, <<0, 771, 5167, 4981, 459>>,
      <<0, 769, 2307, 6923, 769>>, <<0, 766, 9649, 8884, 7370>>,
      <<0, 764, 7191, 1290, 1872>>, <<0, 762, 4928, 5166, 3023>>,
      <<0, 760, 2859, 2126, 9705>>, <<0, 758, 980, 4357, 8903>>,
      <<0, 755, 9289, 4601, 8454>>, <<0, 753, 7783, 6144, 4409>>,
      <<0, 751, 6460, 2800, 2828>>, <<0, 749, 5316, 8899, 5861>>,
      <<0, 747, 4350, 9275, 1935>>, <<0, 745, 3559, 9249, 9929>>,
      <<0, 743, 2941, 4624, 7166>>, <<0, 741, 2493, 1666, 1101>>,
      <<0, 739, 2212, 7095, 4572>>, <<0, 737, 2097, 8077, 4485>>,
      <<0, 735, 2146, 2209, 3807>>, <<0, 733, 2355, 7510, 6766>>,
      <<0, 731, 2724, 2412, 7130>>, <<0, 729, 3249, 5748, 9472>>,
      <<0, 727, 3929, 6745, 3307>>, <<0, 725, 4762, 5011, 11>>,
      <<0, 723, 5746, 529, 2421>>, <<0, 721, 6878, 3648, 7032>>,
      <<0, 719, 8157, 5074, 8694>>, <<0, 717, 9581, 5861, 7738>>,
      <<0, 716, 1148, 7403, 9432>>, <<0, 714, 2857, 1428, 5714>>,
      <<0, 712, 4704, 9987, 9096>>, <<0, 710, 6690, 5451, 8701>>,
      <<0, 708, 8812, 500, 8335>>, <<0, 707, 1067, 8118, 6547>>,
      <<0, 705, 3456, 1585, 8598>>, <<0, 703, 5975, 4473, 291>>,
      <<0, 701, 8624, 634, 3596>>, <<0, 700, 1400, 4201, 4004>>,
      <<0, 698, 4302, 9576, 9578>>, <<0, 696, 7330, 1429, 1617>>,
      <<0, 695, 480, 4685, 6915>>, <<0, 693, 3752, 4528, 1536>>,
      <<0, 691, 7144, 6386, 6074>>, <<0, 690, 655, 5934, 2354>>,
      <<0, 688, 4283, 9082, 1514>>, <<0, 686, 8028, 1974, 3445>>,
      <<0, 685, 1887, 982, 7531>>, <<0, 683, 5859, 2702, 4663>>,
      <<0, 681, 9943, 3947, 473>>, <<0, 680, 4138, 1743, 9771>>,
      <<0, 678, 8442, 3330, 2130>>, <<0, 677, 2854, 6147, 8596>>,
      <<0, 675, 7373, 7839, 9485>>, <<0, 674, 1998, 6246, 3242>>,
      <<0, 672, 6727, 9399, 6312>>, <<0, 671, 1560, 5521, 4024>>,
      <<0, 669, 6495, 3018, 2425>>, <<0, 668, 1531, 478, 1060>>,
      <<0, 666, 6666, 6666, 6666>>, <<0, 665, 1901, 523, 7739>>,
      <<0, 663, 7233, 1159, 9971>>, <<0, 662, 2661, 7853, 2521>>,
      <<0, 660, 8186, 45, 5089>>, <<0, 659, 3804, 7339, 5787>>,
      <<0, 657, 9516, 9495, 9768>>, <<0, 656, 5321, 6429, 8612>>,
      <<0, 655, 1217, 8208, 418>>, <<0, 653, 7204, 5046, 613>>,
      <<0, 652, 3280, 7305, 3442>>, <<0, 650, 9445, 5490, 4119>>,
      <<0, 649, 5698, 246, 1630>>, <<0, 648, 2037, 2355, 2164>>,
      <<0, 646, 8462, 2735, 3150>>, <<0, 645, 4972, 2436, 7902>>,
      <<0, 644, 1566, 2640, 830>>, <<0, 642, 8243, 4653, 3225>>,
      <<0, 641, 5002, 9909, 9584>>, <<0, 640, 1843, 9966, 4479>>,
      <<0, 638, 8765, 6499, 9939>>, <<0, 637, 5767, 1306, 3338>>,
      <<0, 636, 2847, 6297, 5777>>, <<0, 635, 6, 3500, 952>>,
      <<0, 633, 7242, 5052, 4477>>, <<0, 632, 4555, 3203, 3675>>,
      <<0, 631, 1944, 309, 7803>>, <<0, 629, 9407, 8834, 8712>>,
      <<0, 628, 6946, 1346, 1931>>, <<0, 627, 4558, 513, 8158>>,
      <<0, 626, 2242, 9108, 5149>>, <<0, 625, 0, 0, 0>>>>

\* the carries of six limbs, the last one dropped (cut, not rounded)
Normalised(c) ==
    LET k4 == c[5] + c[6] \div LIMB
        k3 == c[4] + k4 \div LIMB
        k2 == c[3] + k3 \div LIMB
        k1 == c[2] + k2 \div LIMB
    IN  <<c[1] + k1 \div LIMB, k1 % LIMB, k2 % LIMB, k3 % LIMB, k4 % LIMB>>

\* the product of two scores, cut after sixteen decimals
Times(a, b) ==
    Normalised(<<a[1] * b[1],
                              a[1] * b[2] + a[2] * b[1],
                              a[1] * b[3] + a[2] * b[2] + a[3] * b[1],
                              a[1] * b[4] + a[2] * b[3] + a[3] * b[2] + a[4] * b[1],
                              a[1] * b[5] + a[2] * b[4] + a[3] * b[3] + a[4] * b[2]
                                  + a[5] * b[1],
                              a[2] * b[5] + a[3] * b[4] + a[4] * b[3] + a[5] * b[2]>>)

\* ratio + exploration (mcts.c:209)
Plus(a, b) == Normalised(<<a[1] + b[1], a[2] + b[2], a[3] + b[3], a[4] + b[4], a[5] + b[5], 0>>)

\* (double) w / n by long division, cut after sixteen decimals (mcts.c:208)
Quotient(w, n) ==
    LET r0 == w % n
        r1 == (r0 * LIMB) % n
        r2 == (r1 * LIMB) % n
        r3 == (r2 * LIMB) % n
    IN  <<w \div n, (r0 * LIMB) \div n, (r1 * LIMB) \div n, (r2 * LIMB) \div n,
          (r3 * LIMB) \div n>>

\* the comparison of two scores as MCTS_selection makes it (UCB > max_UCB)
UCB_less(a, b) ==
    \E i \in 1 .. 5 : a[i] < b[i] /\ \A j \in 1 .. (i - 1) : a[j] = b[j]

\* compute_UCB (mcts.c:197-212): 0.0 for an empty slot and for a node or a
\* parent without visits, else the ratio of the side that moved into the node
\* plus sqrt(2*log(N)/n)
compute_UCB(t, q, as) ==
    IF q \notin DOMAIN t THEN <<0, 0, 0, 0, 0>>
    ELSE
    LET N == t[SubSeq(q, 1, Len(q) - 1)].nb_visits
        n == t[q].nb_visits
        w == t[q].nb_wins
    IN  IF n # 0 /\ N # 0
        THEN CHOOSE score \in
                 { Plus(ratio, exploration)
                   : ratio \in { IF now_playing(t[q].state) # as
                                 THEN Quotient(w, n)
                                 ELSE Quotient(n - w, n) },
                     exploration \in { Times(root, inverse)
                                       : root \in {SqrtTwoLog[N]},
                                         inverse \in {InvSqrt[n]} } } : TRUE
        ELSE <<0, 0, 0, 0, 0>>

\* the pairs <<i, compute_UCB(node->children[i])>> for the seven slots of p
SlotScores(t, p, as) ==
    { <<i, compute_UCB(t, Append(p, i), as)>> : i \in Cols }

\* the children of p whose score equals max_UCB
TiedCols(t, p, as) ==
    UNION { { r[1] : r \in { k \in present : \A j \in present : ~UCB_less(k[2], j[2]) } }
            : present \in { { sc \in SlotScores(t, p, as) : sc[1] \in ChildCols(t, p) } } }

\* a second loop whose test passes for every empty slot
MatchingSlots_with_empty(t, p, as) ==
    TiedCols(t, p, as) \cup (Cols \ ChildCols(t, p))

\* the slots i of the second loop with compute_UCB(n) == max_UCB, the empty
\* ones scoring 0
MatchingSlots(t, p, as) ==
    UNION { { r[1] : r \in { i \in scores :
                                \A k \in scores : k[1] \in tied => i[2] = k[2] } }
            : scores \in {SlotScores(t, p, as)}, tied \in {TiedCols(t, p, as)} }

\* the slots the descent from p can take over the values of random() %
\* nb_ties: max_node when nb_ties is 1, else the slot at which selected drops
\* below 0
DescentSlots(t, p, as) ==
    UNION { IF Cardinality(tied) = 1 THEN tied
            ELSE { i \in matching :
                     Cardinality({ j \in matching : j < i }) < Cardinality(tied) }
            : tied \in {TiedCols(t, p, as)}, matching \in {MatchingSlots(t, p, as)} }

\* the nodes the descent from p can end in, one for every way the random
\* pick among equal highest scores can fall: a leaf, or an empty slot the
\* descent stepped into
RECURSIVE MCTS_selection(_, _, _)
MCTS_selection(t, p, as) ==
    IF p \notin DOMAIN t THEN {p}
    ELSE IF is_leaf(t, p) THEN {p}
    ELSE UNION { { leaf \in MCTS_selection(t, Append(p, c), as) : TRUE }
                 : c \in DescentSlots(t, p, as) }

-----------------------------------------------------------------------------
(* expansion, backpropagation and the search loop *)

\* the nodes below p are no longer reachable once its slots are overwritten
KeptNodes(t, p) == { q \in DOMAIN t : ~(IsPrefix(p, q) /\ Len(q) > Len(p)) }

\* for every column play_copy_auto accepts on the game of p, the game it gives
ChildGames(t, p) ==
    [c \in { k \in Cols : ~play_copy_auto(t[p].state, k).null } |->
        play_copy_auto(t[p].state, c).val]

\* the ways the playouts of the new nodes with the games given can end: for
\* every column, whether its playout is favourable
PlayoutEnds(games, as) ==
    UNION { { f \in [DOMAIN games -> BOOLEAN] : \A c \in DOMAIN games : f[c] \in ends[c] }
            : ends \in { [c \in DOMAIN games |-> Favourable(games[c], as)] } }

\* an expansion that hangs under column c the game after column 6 - c, where
\* that column can be played
MCTS_expansion_mirrored(t, p, as) ==
    UNION { { [q \in kept \cup { Append(p, c) : c \in DOMAIN games } |->
                 IF q \in kept THEN t[q]
                 ELSE create_node_and_simulate(
                          IF ROW_LENGTH - 1 - q[Len(q)] \in DOMAIN games
                          THEN games[ROW_LENGTH - 1 - q[Len(q)]]
                          ELSE games[q[Len(q)]],
                          as, f[q[Len(q)]])]
              : f \in PlayoutEnds(games, as) }
            : kept \in {KeptNodes(t, p)}, games \in {ChildGames(t, p)} }

\* an expansion whose loop stops one column early
MCTS_expansion_six_columns(t, p, as) ==
    UNION { { [q \in kept \cup { Append(p, c) : c \in DOMAIN games \ {ROW_LENGTH - 1} } |->
                 IF q \in kept THEN t[q]
                 ELSE create_node_and_simulate(games[q[Len(q)]], as, f[q[Len(q)]])]
              : f \in PlayoutEnds(games, as) }
            : kept \in {KeptNodes(t, p)}, games \in {ChildGames(t, p)} }

\* MCTS_expansion_simulation(selected): every slot of the leaf is overwritten,
\* with the node create_node_and_simulate makes of the game play_copy_auto
\* gives for the column, or with NULL when it gives none; one tree for every
\* way the playouts of the new nodes can end
MCTS_expansion_simulation(t, p, as) ==
    UNION { { [q \in kept \cup { Append(p, c) : c \in DOMAIN games } |->
                 IF q \in kept THEN t[q]
                 ELSE create_node_and_simulate(games[q[Len(q)]], as, f[q[Len(q)]])]
              : f \in PlayoutEnds(games, as) }
            : kept \in {KeptNodes(t, p)}, games \in {ChildGames(t, p)} }

\* the columns of an expansion of p whose new node needs a playout, and so a
\* copy of its game
RolloutCols(t, p) ==
    { c \in Cols : /\ ~play_copy_auto(t[p].state, c).null
                   /\ winner(play_copy_auto(t[p].state, c).val) < 0 }

\* MTCS_simulation where copy() may return NULL: copied tells whether the
\* playout of an unfinished init_state got its copy
MTCS_simulation_copying(init_state, as, favourable, copied) ==
    IF winner(init_state) >= 0
    THEN (IF winner(init_state) # DRAW THEN winner(init_state) ELSE 0)
    ELSE IF ~copied THEN MEMERROR
    ELSE IF favourable THEN 1 ELSE 0

\* create_node_and_simulate around it: on MEMERROR the node is freed and NULL
\* is returned, on -1 the node holds no visit, else one visit and the result
create_node_and_simulate_copying(state, as, favourable, copied) ==
    LET sim == MTCS_simulation_copying(state, as, favourable, copied)
    IN  IF sim = MEMERROR THEN Null
        ELSE IF sim = -1 THEN Ptr([state |-> state, nb_wins |-> 0, nb_visits |-> 0])
        ELSE Ptr([state |-> state, nb_wins |-> sim, nb_visits |-> 1])

\* MCTS_expansion_simulation where the copies of the columns in refused
\* cannot be allocated: a slot takes what create_node_and_simulate returns
MCTS_expansion_simulation_copying(t, p, as, refused) ==
    UNION { { [q \in kept \cup { Append(p, c) : c \in made } |->
                 IF q \in kept THEN t[q]
                 ELSE create_node_and_simulate_copying(
                          games[q[Len(q)]], as,
                          f[q[Len(q)]], q[Len(q)] \notin refused).val]
              : f \in PlayoutEnds(games, as),
                made \in { { c \in DOMAIN games :
                               ~create_node_and_simulate_copying(
                                    games[c], as, FALSE, c \notin refused).null } } }
            : kept \in {KeptNodes(t, p)}, games \in {ChildGames(t, p)} }

RECURSIVE ChildrenVisits(_, _, _)
ChildrenVisits(t, p, col) ==
    IF col >= ROW_LENGTH THEN 0
    ELSE (IF Append(p, col) \in DOMAIN t THEN t[Append(p, col)].nb_visits ELSE 0)
         + ChildrenVisits(t, p, col + 1)

RECURSIVE ChildrenWins(_, _, _)
ChildrenWins(t, p, col) ==
    IF col >= ROW_LENGTH THEN 0
    ELSE (IF Append(p, col) \in DOMAIN t THEN t[Append(p, col)].nb_wins ELSE 0)
         + ChildrenWins(t, p, col + 1)

\* a backpropagation whose walk up stops at the child of the root
backpropagation_below_root(t, p, as) ==
    LET w == winner(t[p].state)
        dv == IF w = as \/ w = 1 - as THEN 7 ELSE ChildrenVisits(t, p, 0)
        dw == IF w = as THEN 7 ELSE IF w = 1 - as THEN 0 ELSE ChildrenWins(t, p, 0)
    IN  [q \in DOMAIN t |->
            IF IsPrefix(q, p) /\ Len(q) >= 1
            THEN [t[q] EXCEPT !.nb_visits = @ + dv, !.nb_wins = @ + dw]
            ELSE t[q]]

\* a backpropagation that books the seven visits of a lost leaf as wins
backpropagation_lost_leaf_as_wins(t, p, as) ==
    LET w == winner(t[p].state)
    IN  IF w = as THEN AddToAncestors(t, p, 7, 7)
        ELSE IF w = 1 - as THEN AddToAncestors(t, p, 0, 7)
        ELSE AddToAncestors(t, p, ChildrenVisits(t, p, 0), ChildrenWins(t, p, 0))

MTCS_backpropagation(t, p, as) ==
    LET w == winner(t[p].state)
    IN  IF w = as THEN AddToAncestors(t, p, 7, 7)
        ELSE IF w = 1 - as THEN AddToAncestors(t, p, 7, 0)
        ELSE AddToAncestors(t, p, ChildrenVisits(t, p, 0), ChildrenWins(t, p, 0))

\* one pass of the loop body: selection, expansion, backpropagation
SearchIteration(t, as) ==
    UNION { { MTCS_backpropagation(t2, p, as)
              : t2 \in MCTS_expansion_simulation(t, p, as) }
            : p \in MCTS_selection(t, <<>>, as) }

\* the test of the while loop and, where it passes, its body, for each of
\* the trees the loop can hold when loops passes have run
PassAll(trees, as, max_visits, loops) ==
    UNION { IF t[<<>>].nb_visits < max_visits - 7 /\ loops < max_visits
            THEN SearchIteration(t, as)
            ELSE {t}
            : t \in trees }

\* n further tests of the while loop; a tree on which the test has failed
\* fails every later test as well, and stays as it is
RECURSIVE Passes(_, _, _, _, _)
Passes(trees, as, max_visits, loops, n) ==
    IF n = 1 THEN PassAll(trees, as, max_visits, loops)
    ELSE UNION { Passes(mid, as, max_visits, loops + n \div 2, n - n \div 2)
                 : mid \in { Passes(trees, as, max_visits, loops, n \div 2) } }

\* the trees the while loop of MCTS() can leave of tree t: the test fails at
\* the latest when max_visits passes have run
SearchLoop(t, as, max_visits) == Passes({t}, as, max_visits, 0, max_visits)

\* a pick by visits alone: among equally visited children the first one stays
RECURSIVE MostVisited_without_wins(_, _, _, _)
MostVisited_without_wins(t, col, max_visits, selected_col) ==
    IF col >= ROW_LENGTH THEN selected_col
    ELSE IF <<col>> \notin DOMAIN t
    THEN MostVisited_without_wins(t, col + 1, max_visits, selected_col)
    ELSE IF t[<<col>>].nb_visits > max_visits
         THEN MostVisited_without_wins(t, col + 1, t[<<col>>].nb_visits, col)
         ELSE MostVisited_without_wins(t, col + 1, max_visits, selected_col)

\* the for loop of MCTS() that picks the most visited child
RECURSIVE MostVisited(_, _, _, _)
MostVisited(t, col, max_visits, selected_col) ==
    IF col >= ROW_LENGTH THEN selected_col
    ELSE IF <<col>> \notin DOMAIN t THEN MostVisited(t, col + 1, max_visits, selected_col)
    ELSE IF \/ t[<<col>>].nb_visits > max_visits
            \/ /\ t[<<col>>].nb_visits = max_visits
               /\ t[<<col>>].nb_wins > t[<<selected_col>>].nb_wins
         THEN MostVisited(t, col + 1, t[<<col>>].nb_visits, col)
         ELSE MostVisited(t, col + 1, max_visits, selected_col)

\* MCTS(): the tree the loop leaves and the column returned (MCTS_FAIL when
\* no child was picked)
MCTS(t, as, max_visits) ==
    { [tree |-> t2,
       col |-> IF MostVisited(t2, 0, 0, -1) = -1 THEN MCTS_FAIL
               ELSE MostVisited(t2, 0, 0, -1)]
      : t2 \in SearchLoop(t, as, max_visits) }

-----------------------------------------------------------------------------
(* progress_in_tree *)

\* a path creation that plays every missing node's column on the game of
\* tree_root instead of the game of prnt
RECURSIVE CreatePath_from_root(_, _, _, _)
CreatePath_from_root(t, chldrn, i, as) ==
    IF i > Len(chldrn) THEN {[tree |-> t, ok |-> TRUE]}
    ELSE IF SubSeq(chldrn, 1, i) \in DOMAIN t THEN CreatePath_from_root(t, chldrn, i + 1, as)
    ELSE IF play_copy_auto(t[<<>>].state, chldrn[i]).null
         THEN {[tree |-> t, ok |-> FALSE]}
    ELSE UNION {
           CreatePath_from_root(t2, chldrn, i + 1, as)
           : t2 \in { AddToAncestors(AddNode(t, SubSeq(chldrn, 1, i), child),
                                     SubSeq(chldrn, 1, i - 1),
                                     child.nb_visits, child.nb_wins)
                      : child \in { create_node_and_simulate(st, as, f)
                                    : st \in {play_copy_auto(t[<<>>].state, chldrn[i]).val},
                                      f \in Favourable(play_copy_auto(
                                               t[<<>>].state, chldrn[i]).val, as) } } }

\* the for loop over chldrn = {c, x, y}: nodes missing on the path are created
\* and their own counts backpropagated; ok is does_node_cxy_exist
RECURSIVE CreatePath(_, _, _, _)
CreatePath(t, chldrn, i, as) ==
    IF i > Len(chldrn) THEN {[tree |-> t, ok |-> TRUE]}
    ELSE IF SubSeq(chldrn, 1, i) \in DOMAIN t THEN CreatePath(t, chldrn, i + 1, as)
    ELSE IF play_copy_auto(t[SubSeq(chldrn, 1, i - 1)].state, chldrn[i]).null
         THEN {[tree |-> t, ok |-> FALSE]}
    ELSE UNION {
           CreatePath(t2, chldrn, i + 1, as)
           : t2 \in { AddToAncestors(AddNode(t, SubSeq(chldrn, 1, i), child),
                                     SubSeq(chldrn, 1, i - 1),
                                     child.nb_visits, child.nb_wins)
                      : child \in { create_node_and_simulate(st, as, f)
                                    : st \in {play_copy_auto(t[SubSeq(chldrn, 1, i - 1)].state,
                                                             chldrn[i]).val},
                                      f \in Favourable(play_copy_auto(
                                               t[SubSeq(chldrn, 1, i - 1)].state,
                                               chldrn[i]).val, as) } } }

\* continue tests that let the column X be the column C
SkipsPair_x_may_be_c(t, c, y, x) ==
    \/ y = c \/ <<y>> \notin DOMAIN t
    \/ x = y
    \/ <<y, x>> \notin DOMAIN t
    \/ <<y, x, c>> \notin DOMAIN t

\* the two continue tests of the y and x loops
SkipsPair(t, c, y, x) ==
    \/ y = c \/ <<y>> \notin DOMAIN t
    \/ x = y \/ x = c
    \/ <<y, x>> \notin DOMAIN t
    \/ <<y, x, c>> \notin DOMAIN t

\* a merge that stores the merged counts in the node "C -> X -> Y" instead of
\* adding them
merge_replaces_counts(t, c, y, x, as) ==
    IF SkipsPair(t, c, y, x)
    THEN {t}
    ELSE { IF r.ok
           THEN [r.tree EXCEPT ![<<c, x, y>>] =
                    [@ EXCEPT !.nb_visits = t[<<y, x, c>>].nb_visits,
                              !.nb_wins = t[<<y, x, c>>].nb_wins]]
           ELSE r.tree
           : r \in CreatePath(t, <<c, x, y>>, 1, as) }

\* a merge whose last loop runs twice over the path "C -> X -> Y"
merge_counts_twice(t, c, y, x, as) ==
    IF SkipsPair(t, c, y, x)
    THEN {t}
    ELSE { IF r.ok
           THEN AddToAncestors(r.tree, <<c, x, y>>,
                               2 * t[<<y, x, c>>].nb_visits, 2 * t[<<y, x, c>>].nb_wins)
           ELSE r.tree
           : r \in CreatePath(t, <<c, x, y>>, 1, as) }

\* the body of the x loop for one pair (y, x)
MergePair(t, c, y, x, as) ==
    IF SkipsPair(t, c, y, x)
    THEN {t}
    ELSE { IF r.ok
           THEN AddToAncestors(r.tree, <<c, x, y>>,
                               t[<<y, x, c>>].nb_visits, t[<<y, x, c>>].nb_wins)
           ELSE r.tree
           : r \in CreatePath(t, <<c, x, y>>, 1, as) }

\* the first pair from number k on that the loops of progress_in_tree(c) do
\* not skip, ROW_LENGTH * ROW_LENGTH when they skip them all
RECURSIVE NextPair(_, _, _)
NextPair(t, c, k) ==
    IF k >= ROW_LENGTH * ROW_LENGTH THEN ROW_LENGTH * ROW_LENGTH
    ELSE IF k \div ROW_LENGTH = c \/ <<k \div ROW_LENGTH>> \notin DOMAIN t
         THEN NextPair(t, c, (k \div ROW_LENGTH + 1) * ROW_LENGTH)
    ELSE IF ~SkipsPair(t, c, k \div ROW_LENGTH, k % ROW_LENGTH) THEN k
    ELSE NextPair(t, c, k + 1)

\* the y and x loops from pair number k = 7*y + x on
RECURSIVE Recombine(_, _, _, _)
Recombine(t, c, k, as) ==
    UNION { IF j >= ROW_LENGTH * ROW_LENGTH THEN {t}
            ELSE UNION { Recombine(t2, c, j + 1, as)
                         : t2 \in MergePair(t, c, j \div ROW_LENGTH, j % ROW_LENGTH, as) }
            : j \in {NextPair(t, c, k)} }

\* the subtree under column c, as the tree of a new root
Subtree(t, c) ==
    [q \in { Tail(p) : p \in { r \in DOMAIN t : Len(r) >= 1 /\ r[1] = c } } |->
        t[<<c>> \o q]]

\* a change of root that leaves selected_node in its slot of the old root
Detached_nothing(t, c) == t

\* tree_root->children[selected_col] = NULL: the old tree as seen from the
\* old root, without the subtree under column c
Detached(t, c) ==
    [q \in { r \in DOMAIN t : Len(r) = 0 \/ r[1] # c } |-> t[q]]

\* the nodes recursive_node_destroy(node) frees for the node at path p of
\* tree t, each as many times as it is freed; nothing for the NULL of an
\* empty slot
RECURSIVE recursive_node_destroy(_, _)
RECURSIVE DestroyChildren(_, _, _)
recursive_node_destroy(t, p) ==
    IF p \notin DOMAIN t THEN EmptyBag
    ELSE SetToBag({p}) (+) DestroyChildren(t, p, 0)

\* the for loop of recursive_node_destroy from column c on
DestroyChildren(t, p, c) ==
    IF c >= ROW_LENGTH THEN EmptyBag
    ELSE recursive_node_destroy(t, Append(p, c)) (+) DestroyChildren(t, p, c + 1)

\* the nodes of tree t that progress_in_tree(c) frees at its end
FreedByProgress(t, c) == recursive_node_destroy(Detached(t, c), <<>>)

\* the end of progress_in_tree: selected_node becomes tree_root, a missing one
\* is created, everything else is freed
Rerooted(t, c, as) ==
    IF <<c>> \in DOMAIN t THEN {Subtree(t, c)}
    ELSE { (<<>> :> create_node_and_simulate(st, as, f))
           : st \in {play_copy_auto(t[<<>>].state, c).val},
             f \in Favourable(play_copy_auto(t[<<>>].state, c).val, as) }

\* progress_in_tree(c) for c in [0, 6] legal at the root: the trees under the
\* new tree_root
progress_in_tree(t, c, as) ==
    UNION { Rerooted(t2, c, as) : t2 \in Recombine(t, c, 0, as) }

-----------------------------------------------------------------------------
(* threat detection *)

\* a scan that keeps the last winning column instead of the first
can_make_connect4_highest(g) ==
    LET wins == { col \in Cols : play_auto_without_update(g, col) = 1 }
    IN  IF wins = {} THEN -1 ELSE CHOOSE col \in wins : \A k \in wins : col >= k

can_make_connect4_now(g) ==
    LET wins == { col \in Cols : play_auto_without_update(g, col) = 1 }
    IN  IF wins = {} THEN -1 ELSE CHOOSE col \in wins : \A k \in wins : col <= k

\* the columns move2 # move1 with which the side that moved last wins after move1
ThreatsAfter(g, move1) ==
    { move2 \in Cols \ {move1} :
        play_auto_without_update(play_auto(copy(g), move1).game, move2) = 1 }

\* a detector that gives up after one valid intermediate move
threat_after_first_move_only(g) ==
    LET valid == { move1 \in Cols : play_auto(copy(g), move1).res = 0 }
        tried == { move1 \in valid : Cardinality({ k \in valid : k < move1 }) < 1 }
        found == { move1 \in tried : ThreatsAfter(g, move1) # {} }
    IN  IF found = {} THEN -1
        ELSE LET first == CHOOSE move1 \in found : \A k \in found : move1 <= k
             IN  CHOOSE move2 \in ThreatsAfter(g, first) :
                     \A k \in ThreatsAfter(g, first) : move2 <= k

does_latest_player_threaten_to_connect4(g) ==
    LET valid == { move1 \in Cols : play_auto(copy(g), move1).res = 0 }
        \* the valid iterations: the loop stops after the second
        tried == { move1 \in valid : Cardinality({ k \in valid : k < move1 }) < 2 }
        found == { move1 \in tried : ThreatsAfter(g, move1) # {} }
    IN  IF found = {} THEN -1
        ELSE LET first == CHOOSE move1 \in found : \A k \in found : move1 <= k
             IN  CHOOSE move2 \in ThreatsAfter(g, first) :
                     \A k \in ThreatsAfter(g, first) : move2 <= k

-----------------------------------------------------------------------------
(* The game on its own: calls of play and play_auto on one game_t *)

\* The positions below are reached from game_init by play_auto of the listed
\* columns in turn.

\* the game after the first k moves of A:0, B:6, A:0, B:6, A:0, B:6, A:0: the
\* first six are accepted with 0, the seventh is A's fourth disk in column 0,
\* returns 1 and sets A's win flag
ExampleGame(k) ==
    LET nA == (k + 1) \div 2
        nB == k \div 2
    IN  [gridA |-> { (r + 1) * ROW_LENGTH - 1 : r \in 0 .. (nA - 1) }
                   \cup (IF k % 2 = 0 THEN TURN_BIT ELSE {})
                   \cup (IF nA >= 4 THEN WIN_BIT ELSE {}),
         gridB |-> { r * ROW_LENGTH : r \in 0 .. (nB - 1) }
                   \cup (IF k % 2 = 1 THEN TURN_BIT ELSE {}),
         cols_occupation |-> [c \in Cols |-> IF c = 0 THEN nA
                                             ELSE IF c = ROW_LENGTH - 1 THEN nB ELSE 0]]

\* 2 0 3 0 6 6 3 6 6 4 2 5 0 1: A to move; within three moves a four is
\* completed in each of the four directions, and disks come to lie on bit
\* offsets 1, 6 or 8 apart across a board edge without being in line
MidPosition ==
    [gridA |-> {0, 3, 4, 10, 11, 20, 21} \cup TURN_BIT,
     gridB |-> {1, 2, 5, 6, 7, 13, 14},
     cols_occupation |-> [c \in Cols |-> CASE c = 0 -> 3
                                           [] c \in {2, 3} -> 2
                                           [] c = 6 -> 4
                                           [] OTHER -> 1]]

\* 3 0 4 5 2 2 5 6 5 2 2 4 3 1 0 0 2 3 6 4 1 2 6 5 3 3 4 3 1 0 4 1 1 0 1 5 0 6 6:
\* B to move, no winner, the three cells left are in the top row
NearFullPosition ==
    [gridA |-> {2, 3, 4, 7, 8, 10, 12, 13, 14, 15, 19, 23, 24, 25, 28, 30, 32, 33, 40, 41},
     gridB |-> {0, 1, 5, 6, 9, 11, 16, 17, 18, 20, 21, 22, 26, 27, 29, 31, 34, 38, 39}
               \cup TURN_BIT,
     cols_occupation |-> [c \in Cols |-> IF c \in 0 .. 3 THEN 6 ELSE 5]]

\* the positions the exploration starts from: only a build whose turn test
\* reads the turn bit ever leaves the empty board
StartPositions ==
    IF shift_ub = "wrap"
    THEN {game_init, ExampleGame(4), MidPosition, NearFullPosition}
    ELSE {game_init}

\* arguments handed to play, the invalid ones included
PlayerArgs == {PLAYER_A, PLAYER_B, 2}
ColArgs == -1 .. ROW_LENGTH

\* the file-scope variables of mcts.c.  status is "uninit" before init_MCTS,
\* "ready" once it returned, "hung" when a call spins in a playout, and
\* "crashed" or "undefined" after progress_in_tree ran out of bounds
Engine(status, as, max_visits, t) ==
    [status |-> status, PLAYING_AS |-> as, MAX_VISITS |-> max_visits, tree |-> t]

NoTree == [q \in {} |-> 0]
NoEngine == Engine("uninit", PLAYER_B, 20, NoTree)

\* what the latest call of the engine did: its arguments, the root's game
\* before it, the branch that decided the reply, the columns it handed to
\* progress_in_tree, and whether the root had no child when MCTS() picked
CallRecord(op, args, before, decided, fed, childless) ==
    [op |-> op, args |-> args, before |-> before, decided |-> decided,
     fed |-> fed, childless |-> childless]

NoCall == CallRecord("none", <<>>, game_init, "none", <<>>, FALSE)

\* no game_t allocated
NoHeap == [a \in {} |-> game_init]

\* where a call of the engine stands: the statement reached (pc), what follows
\* the loop of MCTS() (mode) and the current progress_in_tree (after), the
\* column given to progress_in_tree (col), the pair number 7*y + x its loops
\* have reached (k), the selected leaf, the local loops of MCTS() and the
\* column the call will return (reply)
StepRecord(pc, mode, after, col, k, leaf, loops, reply) ==
    [pc |-> pc, mode |-> mode, after |-> after, col |-> col, k |-> k,
     leaf |-> leaf, loops |-> loops, reply |-> reply]

\* no call of the engine under way
NoStep == StepRecord("idle", "none", "none", 0, 0, <<>>, 0, 0)

GameInit ==
    /\ shift_ub \in ShiftOutcomes
    /\ game \in StartPositions
    /\ ret = {}
    /\ moves = 0
    /\ eng = NoEngine
    /\ call = NoCall
    /\ heap = NoHeap
    /\ step = NoStep

\* one call r on the caller's game
Called(r) ==
    /\ moves < MaxMoves
    /\ game' = r.game
    /\ ret' = {r.res}
    /\ moves' = IF r.res >= 0 THEN moves + 1 ELSE moves
    /\ UNCHANGED <<shift_ub, eng, call, heap, step>>

Play(player, col) == Called(play(game, player, col))

PlayAuto(col) == Called(play_auto(game, col))

GameNext ==
    \/ \E player \in PlayerArgs, col \in ColArgs : Play(player, col)
    \/ \E col \in ColArgs : PlayAuto(col)

GameSpec == GameInit /\ [][GameNext]_vars

-----------------------------------------------------------------------------
(* The engine: calls of init_MCTS and input_MCTS *)

\* tree_root and its seven children as init_MCTS builds them
InitialTrees(as) ==
    { AddToAncestors(t, <<>>, ChildrenVisits(t, <<>>, 0), ChildrenWins(t, <<>>, 0))
      : t \in UNION { MCTS_expansion_simulation(t0, <<>>, as)
                      : t0 \in { (<<>> :> create_node_and_simulate(game_init, as, f))
                                 : f \in Favourable(game_init, as) } } }

\* col = MCTS(); progress_in_tree(col); return col;  With MCTS_FAIL the reads
\* and writes of tree_root->children[-2] fall outside the array: the process
\* dies there, or goes on with a root nothing can be said about
SearchAndProgress(t, as, max_visits) ==
    UNION { IF r.col = MCTS_FAIL
            THEN { [status |-> "crashed", tree |-> r.tree, ret |-> {},
                    fed |-> <<r.col>>, childless |-> ChildCols(r.tree, <<>>) = {}],
                   [status |-> "undefined", tree |-> r.tree, ret |-> {r.col},
                    fed |-> <<r.col>>, childless |-> ChildCols(r.tree, <<>>) = {}] }
            ELSE { [status |-> "ready", tree |-> t2, ret |-> {r.col},
                    fed |-> <<r.col>>, childless |-> ChildCols(r.tree, <<>>) = {}]
                   : t2 \in progress_in_tree(r.tree, r.col, as) }
            : r \in MCTS(t, as, max_visits) }

\* progress_in_tree(col_to_play); MCTS(); return col_to_play;
ProgressAndSearch(t, col_to_play, as, max_visits) ==
    { [status |-> "ready", tree |-> r.tree, ret |-> {col_to_play},
       fed |-> <<col_to_play>>, childless |-> ChildCols(r.tree, <<>>) = {}]
      : r \in UNION { MCTS(t2, as, max_visits)
                      : t2 \in progress_in_tree(t, col_to_play, as) } }

\* the ways init_MCTS(playing_as, max_visits) can end
init_MCTS(playing_as, max_visits) ==
    IF max_visits < 8 \/ playing_as \notin {PLAYER_A, PLAYER_B}
    THEN { [eng |-> eng, ret |-> {ARG_ERROR},
            call |-> CallRecord("init_MCTS", <<playing_as, max_visits>>, game_init,
                                "rejected", <<>>, FALSE)] }
    ELSE IF ~playout_returns(game_init)
    THEN { [eng |-> Engine("hung", playing_as, max_visits, NoTree), ret |-> {},
            call |-> CallRecord("init_MCTS", <<playing_as, max_visits>>, game_init,
                                "none", <<>>, FALSE)] }
    ELSE IF playing_as = PLAYER_A
    THEN { [eng |-> Engine(o.status, playing_as, max_visits, o.tree), ret |-> o.ret,
            call |-> CallRecord("init_MCTS", <<playing_as, max_visits>>, game_init,
                                "search", o.fed, o.childless)]
           : o \in UNION { SearchAndProgress(t, playing_as, max_visits)
                           : t \in InitialTrees(playing_as) } }
    ELSE { [eng |-> Engine("ready", playing_as, max_visits, t), ret |-> {ROW_LENGTH},
            call |-> CallRecord("init_MCTS", <<playing_as, max_visits>>, game_init,
                                "none", <<>>, FALSE)]
           : t \in InitialTrees(playing_as) }

\* the reply of input_MCTS once the opponent's column is under the root t
Reply(t, as, max_visits) ==
    IF can_make_connect4_now(t[<<>>].state) >= 0
    THEN { [decided |-> "win"] @@ x
                     : x \in ProgressAndSearch(t, can_make_connect4_now(t[<<>>].state),
                                               as, max_visits) }
    ELSE IF does_latest_player_threaten_to_connect4(t[<<>>].state) >= 0
    THEN { [decided |-> "threat"] @@ x
                     : x \in ProgressAndSearch(
                                 t, does_latest_player_threaten_to_connect4(t[<<>>].state),
                                 as, max_visits) }
    ELSE { [decided |-> "search"] @@ x
                     : x \in SearchAndProgress(t, as, max_visits) }

\* the ways input_MCTS(col) can end
input_MCTS(col) ==
    IF col < 0 \/ col >= ROW_LENGTH
    THEN { [eng |-> eng, ret |-> {ARG_ERROR},
            call |-> CallRecord("input_MCTS", <<col>>, eng.tree[<<>>].state,
                                "rejected", <<>>, FALSE)] }
    ELSE IF <<col>> \notin DOMAIN eng.tree
    THEN { [eng |-> eng, ret |-> {-1},
            call |-> CallRecord("input_MCTS", <<col>>, eng.tree[<<>>].state,
                                "rejected", <<>>, FALSE)] }
    ELSE { [eng |-> Engine(o.status, eng.PLAYING_AS, eng.MAX_VISITS, o.tree),
            ret |-> o.ret,
            call |-> CallRecord("input_MCTS", <<col>>, eng.tree[<<>>].state,
                                o.decided, <<col>> \o o.fed, o.childless)]
           : o \in UNION { Reply(t, eng.PLAYING_AS, eng.MAX_VISITS)
                           : t \in progress_in_tree(eng.tree, col, eng.PLAYING_AS) } }

\* the ways destroy_MCTS() can end.  It frees every node under tree_root and
\* leaves tree_root pointing at the freed root: a second call reads and frees
\* freed memory, and the process dies there or goes on with a corrupted heap.
\* Calls of init_MCTS and input_MCTS on a destroyed engine are not followed.
destroy_MCTS ==
    IF eng.status = "uninit"
    THEN { [eng |-> eng, ret |-> {},
            call |-> CallRecord("destroy_MCTS", <<>>, game_init, "none", <<>>, FALSE)] }
    ELSE IF eng.status = "ready"
    THEN { [eng |-> Engine("destroyed", eng.PLAYING_AS, eng.MAX_VISITS, NoTree), ret |-> {},
            call |-> CallRecord("destroy_MCTS", <<>>, game_init, "none", <<>>, FALSE)] }
    ELSE { [eng |-> Engine(st, eng.PLAYING_AS, eng.MAX_VISITS, NoTree), ret |-> {},
            call |-> CallRecord("destroy_MCTS", <<>>, game_init, "none", <<>>, FALSE)]
           : st \in {"crashed", "undefined"} }

-----------------------------------------------------------------------------
(* Games replayed on the program: the trees it holds late in a game *)

\* a node by its grids, its seven column counters and its counts
Node(gridA, gridB, occupation, nb_wins, nb_visits) ==
    [state |-> [gridA |-> gridA, gridB |-> gridB,
                cols_occupation |-> [c \in Cols |-> occupation[c + 1]]],
     nb_wins |-> nb_wins, nb_visits |-> nb_visits]

\* the tree of the engine playing PLAYER_A with budget 16 after 39 disks, when
\* columns 0, 1 and 2 have one free cell each; the calls and their returns:
\* init_MCTS(0, 16) = 3; input_MCTS(1) = 2; input_MCTS(3) = 5; input_MCTS(4) =
\* 5; input_MCTS(0) = 3; input_MCTS(3) = 0; input_MCTS(5) = 6; input_MCTS(3) =
\* 4; input_MCTS(4) = 6; input_MCTS(5) = 6; input_MCTS(6) = 4; input_MCTS(4) =
\* 6; input_MCTS(6) = 5; input_MCTS(2) = 2; input_MCTS(2) = 4; input_MCTS(3) =
\* 0; input_MCTS(5) = 0; input_MCTS(0) = 1; input_MCTS(1) = 1; input_MCTS(2) =
\* 1;
EndgameA16 ==
    (<<>> :> Node({0, 1, 3, 4, 7, 8, 9, 12, 13, 14, 17, 18, 20, 23, 26, 27, 28, 29, 33, 37},
                {2, 5, 6, 10, 11, 15, 16, 19, 21, 22, 24, 25, 30, 31, 32, 34, 35, 36, 38} \cup TURN_BIT,
                <<5, 5, 5, 6, 6, 6, 6>>, 2, 9))
    @@ (<<0>> :> Node({0, 1, 3, 4, 7, 8, 9, 12, 13, 14, 17, 18, 20, 23, 26, 27, 28, 29, 33, 37} \cup TURN_BIT,
                   {2, 5, 6, 10, 11, 15, 16, 19, 21, 22, 24, 25, 30, 31, 32, 34, 35, 36, 38, 41},
                   <<6, 5, 5, 6, 6, 6, 6>>, 1, 4))
    @@ (<<0, 1>> :> Node({0, 1, 3, 4, 7, 8, 9, 12, 13, 14, 17, 18, 20, 23, 26, 27, 28, 29, 33, 37, 40},
                   {2, 5, 6, 10, 11, 15, 16, 19, 21, 22, 24, 25, 30, 31, 32, 34, 35, 36, 38, 41} \cup TURN_BIT,
                   <<6, 6, 5, 6, 6, 6, 6>>, 0, 1))
    @@ (<<0, 2>> :> Node({0, 1, 3, 4, 7, 8, 9, 12, 13, 14, 17, 18, 20, 23, 26, 27, 28, 29, 33, 37, 39},
                   {2, 5, 6, 10, 11, 15, 16, 19, 21, 22, 24, 25, 30, 31, 32, 34, 35, 36, 38, 41} \cup TURN_BIT,
                   <<6, 5, 6, 6, 6, 6, 6>>, 1, 2))
    @@ (<<0, 2, 1>> :> Node({0, 1, 3, 4, 7, 8, 9, 12, 13, 14, 17, 18, 20, 23, 26, 27, 28, 29, 33, 37, 39} \cup TURN_BIT,
                   {2, 5, 6, 10, 11, 15, 16, 19, 21, 22, 24, 25, 30, 31, 32, 34, 35, 36, 38, 40, 41, 61},
                   <<6, 6, 6, 6, 6, 6, 6>>, 1, 1))
    @@ (<<1>> :> Node({0, 1, 3, 4, 7, 8, 9, 12, 13, 14, 17, 18, 20, 23, 26, 27, 28, 29, 33, 37} \cup TURN_BIT,
                   {2, 5, 6, 10, 11, 15, 16, 19, 21, 22, 24, 25, 30, 31, 32, 34, 35, 36, 38, 40, 61},
                   <<5, 6, 5, 6, 6, 6, 6>>, 1, 1))
    @@ (<<2>> :> Node({0, 1, 3, 4, 7, 8, 9, 12, 13, 14, 17, 18, 20, 23, 26, 27, 28, 29, 33, 37} \cup TURN_BIT,
                   {2, 5, 6, 10, 11, 15, 16, 19, 21, 22, 24, 25, 30, 31, 32, 34, 35, 36, 38, 39},
                   <<5, 5, 6, 6, 6, 6, 6>>, 0, 3))
    @@ (<<2, 0>> :> Node({0, 1, 3, 4, 7, 8, 9, 12, 13, 14, 17, 18, 20, 23, 26, 27, 28, 29, 33, 37, 41},
                   {2, 5, 6, 10, 11, 15, 16, 19, 21, 22, 24, 25, 30, 31, 32, 34, 35, 36, 38, 39} \cup TURN_BIT,
                   <<6, 5, 6, 6, 6, 6, 6>>, 0, 1))
    @@ (<<2, 1>> :> Node({0, 1, 3, 4, 7, 8, 9, 12, 13, 14, 17, 18, 20, 23, 26, 27, 28, 29, 33, 37, 40},
                   {2, 5, 6, 10, 11, 15, 16, 19, 21, 22, 24, 25, 30, 31, 32, 34, 35, 36, 38, 39} \cup TURN_BIT,
                   <<5, 6, 6, 6, 6, 6, 6>>, 0, 1))

\* the tree of the engine playing PLAYER_B with budget 16 after 38 disks, when
\* columns 0 and 1 have one free cell and column 5 has two; the calls and their
\* returns: init_MCTS(1, 16) = 7; input_MCTS(0) = 6; input_MCTS(4) = 4;
\* input_MCTS(1) = 3; input_MCTS(3) = 0; input_MCTS(3) = 3; input_MCTS(4) = 2;
\* input_MCTS(3) = 5; input_MCTS(3) = 2; input_MCTS(6) = 2; input_MCTS(2) = 6;
\* input_MCTS(2) = 6; input_MCTS(2) = 5; input_MCTS(5) = 4; input_MCTS(5) = 6;
\* input_MCTS(6) = 4; input_MCTS(1) = 1; input_MCTS(4) = 0; input_MCTS(0) = 1;
\* input_MCTS(0) = 1;
EndgameB16 ==
    (<<>> :> Node({2, 5, 6, 7, 10, 12, 15, 16, 17, 22, 25, 27, 31, 32, 34, 35, 37, 38, 39} \cup TURN_BIT,
                {0, 1, 3, 4, 8, 9, 11, 13, 14, 18, 19, 20, 21, 23, 24, 26, 28, 30, 33},
                <<5, 5, 6, 6, 6, 4, 6>>, 1, 11))
    @@ (<<0>> :> Node({2, 5, 6, 7, 10, 12, 15, 16, 17, 22, 25, 27, 31, 32, 34, 35, 37, 38, 39, 41},
                   {0, 1, 3, 4, 8, 9, 11, 13, 14, 18, 19, 20, 21, 23, 24, 26, 28, 30, 33} \cup TURN_BIT,
                   <<6, 5, 6, 6, 6, 4, 6>>, 0, 1))
    @@ (<<1>> :> Node({2, 5, 6, 7, 10, 12, 15, 16, 17, 22, 25, 27, 31, 32, 34, 35, 37, 38, 39, 40, 61},
                   {0, 1, 3, 4, 8, 9, 11, 13, 14, 18, 19, 20, 21, 23, 24, 26, 28, 30, 33} \cup TURN_BIT,
                   <<5, 6, 6, 6, 6, 4, 6>>, 0, 8))
    @@ (<<5>> :> Node({2, 5, 6, 7, 10, 12, 15, 16, 17, 22, 25, 27, 29, 31, 32, 34, 35, 37, 38, 39},
                   {0, 1, 3, 4, 8, 9, 11, 13, 14, 18, 19, 20, 21, 23, 24, 26, 28, 30, 33} \cup TURN_BIT,
                   <<5, 5, 6, 6, 6, 5, 6>>, 1, 1))

\* the tree of the engine playing PLAYER_A with budget 72 after 37 disks, when
\* column 0 has one free cell and columns 1 and 6 have two; the calls and their
\* returns: init_MCTS(0, 72) = 3; input_MCTS(6) = 4; input_MCTS(1) = 4;
\* input_MCTS(6) = 2; input_MCTS(5) = 4; input_MCTS(4) = 2; input_MCTS(4) = 5;
\* input_MCTS(3) = 1; input_MCTS(3) = 2; input_MCTS(2) = 0; input_MCTS(3) = 3;
\* input_MCTS(1) = 1; input_MCTS(3) = 5; input_MCTS(4) = 5; input_MCTS(5) = 2;
\* input_MCTS(2) = 5; input_MCTS(0) = 6; input_MCTS(6) = 0; input_MCTS(0) = 0;
EndgameA72 ==
    (<<>> :> Node({2, 3, 4, 6, 8, 9, 11, 12, 14, 15, 16, 18, 20, 22, 26, 31, 32, 34, 36},
                {0, 1, 5, 7, 10, 13, 17, 19, 21, 23, 24, 25, 27, 29, 30, 37, 38, 39} \cup TURN_BIT,
                <<5, 4, 6, 6, 6, 6, 4>>, 21, 42))
    @@ (<<0>> :> Node({2, 3, 4, 6, 8, 9, 11, 12, 14, 15, 16, 18, 20, 22, 26, 31, 32, 34, 36} \cup TURN_BIT,
                   {0, 1, 5, 7, 10, 13, 17, 19, 21, 23, 24, 25, 27, 29, 30, 37, 38, 39, 41},
                   <<6, 4, 6, 6, 6, 6, 4>>, 7, 10))
    @@ (<<0, 1>> :> Node({2, 3, 4, 6, 8, 9, 11, 12, 14, 15, 16, 18, 20, 22, 26, 31, 32, 33, 34, 36, 61},
                   {0, 1, 5, 7, 10, 13, 17, 19, 21, 23, 24, 25, 27, 29, 30, 37, 38, 39, 41} \cup TURN_BIT,
                   <<6, 5, 6, 6, 6, 6, 4>>, 7, 8))
    @@ (<<0, 6>> :> Node({2, 3, 4, 6, 8, 9, 11, 12, 14, 15, 16, 18, 20, 22, 26, 28, 31, 32, 34, 36},
                   {0, 1, 5, 7, 10, 13, 17, 19, 21, 23, 24, 25, 27, 29, 30, 37, 38, 39, 41} \cup TURN_BIT,
                   <<6, 4, 6, 6, 6, 6, 5>>, 0, 1))
    @@ (<<1>> :> Node({2, 3, 4, 6, 8, 9, 11, 12, 14, 15, 16, 18, 20, 22, 26, 31, 32, 34, 36} \cup TURN_BIT,
                   {0, 1, 5, 7, 10, 13, 17, 19, 21, 23, 24, 25, 27, 29, 30, 33, 37, 38, 39},
                   <<5, 5, 6, 6, 6, 6, 4>>, 5, 19))
    @@ (<<1, 0>> :> Node({2, 3, 4, 6, 8, 9, 11, 12, 14, 15, 16, 18, 20, 22, 26, 31, 32, 34, 36, 41},
                   {0, 1, 5, 7, 10, 13, 17, 19, 21, 23, 24, 25, 27, 29, 30, 33, 37, 38, 39} \cup TURN_BIT,
                   <<6, 5, 6, 6, 6, 6, 4>>, 1, 3))
    @@ (<<1, 0, 1>> :> Node({2, 3, 4, 6, 8, 9, 11, 12, 14, 15, 16, 18, 20, 22, 26, 31, 32, 34, 36, 41} \cup TURN_BIT,
                   {0, 1, 5, 7, 10, 13, 17, 19, 21, 23, 24, 25, 27, 29, 30, 33, 37, 38, 39, 40, 61},
                   <<6, 6, 6, 6, 6, 6, 4>>, 1, 1))
    @@ (<<1, 0, 6>> :> Node({2, 3, 4, 6, 8, 9, 11, 12, 14, 15, 16, 18, 20, 22, 26, 31, 32, 34, 36, 41} \cup TURN_BIT,
                   {0, 1, 5, 7, 10, 13, 17, 19, 21, 23, 24, 25, 27, 28, 29, 30, 33, 37, 38, 39},
                   <<6, 5, 6, 6, 6, 6, 5>>, 0, 1))
    @@ (<<1, 1>> :> Node({2, 3, 4, 6, 8, 9, 11, 12, 14, 15, 16, 18, 20, 22, 26, 31, 32, 34, 36, 40},
                   {0, 1, 5, 7, 10, 13, 17, 19, 21, 23, 24, 25, 27, 29, 30, 33, 37, 38, 39} \cup TURN_BIT,
                   <<5, 6, 6, 6, 6, 6, 4>>, 1, 3))
    @@ (<<1, 1, 0>> :> Node({2, 3, 4, 6, 8, 9, 11, 12, 14, 15, 16, 18, 20, 22, 26, 31, 32, 34, 36, 40} \cup TURN_BIT,
                   {0, 1, 5, 7, 10, 13, 17, 19, 21, 23, 24, 25, 27, 29, 30, 33, 37, 38, 39, 41, 61},
                   <<6, 6, 6, 6, 6, 6, 4>>, 1, 1))
    @@ (<<1, 1, 6>> :> Node({2, 3, 4, 6, 8, 9, 11, 12, 14, 15, 16, 18, 20, 22, 26, 31, 32, 34, 36, 40} \cup TURN_BIT,
                   {0, 1, 5, 7, 10, 13, 17, 19, 21, 23, 24, 25, 27, 28, 29, 30, 33, 37, 38, 39},
                   <<5, 6, 6, 6, 6, 6, 5>>, 0, 1))
    @@ (<<1, 6>> :> Node({2, 3, 4, 6, 8, 9, 11, 12, 14, 15, 16, 18, 20, 22, 26, 28, 31, 32, 34, 36},
                   {0, 1, 5, 7, 10, 13, 17, 19, 21, 23, 24, 25, 27, 29, 30, 33, 37, 38, 39} \cup TURN_BIT,
                   <<5, 5, 6, 6, 6, 6, 5>>, 3, 12))
    @@ (<<1, 6, 0>> :> Node({2, 3, 4, 6, 8, 9, 11, 12, 14, 15, 16, 18, 20, 22, 26, 28, 31, 32, 34, 36} \cup TURN_BIT,
                   {0, 1, 5, 7, 10, 13, 17, 19, 21, 23, 24, 25, 27, 29, 30, 33, 37, 38, 39, 41, 61},
                   <<6, 5, 6, 6, 6, 6, 5>>, 1, 1))
    @@ (<<1, 6, 1>> :> Node({2, 3, 4, 6, 8, 9, 11, 12, 14, 15, 16, 18, 20, 22, 26, 28, 31, 32, 34, 36} \cup TURN_BIT,
                   {0, 1, 5, 7, 10, 13, 17, 19, 21, 23, 24, 25, 27, 29, 30, 33, 37, 38, 39, 40, 61},
                   <<5, 6, 6, 6, 6, 6, 5>>, 1, 8))
    @@ (<<1, 6, 6>> :> Node({2, 3, 4, 6, 8, 9, 11, 12, 14, 15, 16, 18, 20, 22, 26, 28, 31, 32, 34, 36} \cup TURN_BIT,
                   {0, 1, 5, 7, 10, 13, 17, 19, 21, 23, 24, 25, 27, 29, 30, 33, 35, 37, 38, 39, 61},
                   <<5, 5, 6, 6, 6, 6, 6>>, 1, 1))
    @@ (<<6>> :> Node({2, 3, 4, 6, 8, 9, 11, 12, 14, 15, 16, 18, 20, 22, 26, 31, 32, 34, 36} \cup TURN_BIT,
                   {0, 1, 5, 7, 10, 13, 17, 19, 21, 23, 24, 25, 27, 28, 29, 30, 37, 38, 39},
                   <<5, 4, 6, 6, 6, 6, 5>>, 8, 12))
    @@ (<<6, 0>> :> Node({2, 3, 4, 6, 8, 9, 11, 12, 14, 15, 16, 18, 20, 22, 26, 31, 32, 34, 36, 41},
                   {0, 1, 5, 7, 10, 13, 17, 19, 21, 23, 24, 25, 27, 28, 29, 30, 37, 38, 39} \cup TURN_BIT,
                   <<6, 4, 6, 6, 6, 6, 5>>, 0, 1))
    @@ (<<6, 1>> :> Node({2, 3, 4, 6, 8, 9, 11, 12, 14, 15, 16, 18, 20, 22, 26, 31, 32, 33, 34, 36, 61},
                   {0, 1, 5, 7, 10, 13, 17, 19, 21, 23, 24, 25, 27, 28, 29, 30, 37, 38, 39} \cup TURN_BIT,
                   <<5, 5, 6, 6, 6, 6, 5>>, 7, 9))
    @@ (<<6, 6>> :> Node({2, 3, 4, 6, 8, 9, 11, 12, 14, 15, 16, 18, 20, 22, 26, 31, 32, 34, 35, 36},
                   {0, 1, 5, 7, 10, 13, 17, 19, 21, 23, 24, 25, 27, 28, 29, 30, 37, 38, 39} \cup TURN_BIT,
                   <<5, 4, 6, 6, 6, 6, 6>>, 0, 1))

\* the tree of the engine playing PLAYER_B with budget 72 after 36 disks, when
\* column 0 has three free cells, column 1 two and column 6 one; the calls and
\* their returns: init_MCTS(1, 72) = 7; input_MCTS(1) = 3; input_MCTS(5) = 1;
\* input_MCTS(1) = 3; input_MCTS(4) = 3; input_MCTS(3) = 5; input_MCTS(5) = 2;
\* input_MCTS(4) = 5; input_MCTS(4) = 4; input_MCTS(0) = 0; input_MCTS(2) = 3;
\* input_MCTS(4) = 6; input_MCTS(6) = 1; input_MCTS(6) = 3; input_MCTS(6) = 6;
\* input_MCTS(5) = 2; input_MCTS(2) = 5; input_MCTS(2) = 2; input_MCTS(4) = 0;
EndgameB72 ==
    (<<>> :> Node({1, 2, 5, 6, 7, 9, 11, 14, 15, 16, 19, 21, 24, 25, 29, 30, 32, 37} \cup TURN_BIT,
                {0, 3, 4, 8, 10, 12, 13, 17, 18, 20, 22, 23, 26, 28, 31, 36, 38, 39},
                <<3, 4, 6, 6, 6, 6, 5>>, 22, 32))
    @@ (<<0>> :> Node({1, 2, 5, 6, 7, 9, 11, 14, 15, 16, 19, 21, 24, 25, 27, 29, 30, 32, 37},
                   {0, 3, 4, 8, 10, 12, 13, 17, 18, 20, 22, 23, 26, 28, 31, 36, 38, 39} \cup TURN_BIT,
                   <<4, 4, 6, 6, 6, 6, 5>>, 6, 9))
    @@ (<<0, 0>> :> Node({1, 2, 5, 6, 7, 9, 11, 14, 15, 16, 19, 21, 24, 25, 27, 29, 30, 32, 37} \cup TURN_BIT,
                   {0, 3, 4, 8, 10, 12, 13, 17, 18, 20, 22, 23, 26, 28, 31, 34, 36, 38, 39, 61},
                   <<5, 4, 6, 6, 6, 6, 5>>, 1, 1))
    @@ (<<0, 1>> :> Node({1, 2, 5, 6, 7, 9, 11, 14, 15, 16, 19, 21, 24, 25, 27, 29, 30, 32, 37} \cup TURN_BIT,
                   {0, 3, 4, 8, 10, 12, 13, 17, 18, 20, 22, 23, 26, 28, 31, 33, 36, 38, 39},
                   <<4, 5, 6, 6, 6, 6, 5>>, 2, 4))
    @@ (<<0, 1, 0>> :> Node({1, 2, 5, 6, 7, 9, 11, 14, 15, 16, 19, 21, 24, 25, 27, 29, 30, 32, 34, 37},
                   {0, 3, 4, 8, 10, 12, 13, 17, 18, 20, 22, 23, 26, 28, 31, 33, 36, 38, 39} \cup TURN_BIT,
                   <<5, 5, 6, 6, 6, 6, 5>>, 0, 1))
    @@ (<<0, 1, 1>> :> Node({1, 2, 5, 6, 7, 9, 11, 14, 15, 16, 19, 21, 24, 25, 27, 29, 30, 32, 37, 40, 61},
                   {0, 3, 4, 8, 10, 12, 13, 17, 18, 20, 22, 23, 26, 28, 31, 33, 36, 38, 39} \cup TURN_BIT,
                   <<4, 6, 6, 6, 6, 6, 5>>, 0, 1))
    @@ (<<0, 1, 6>> :> Node({1, 2, 5, 6, 7, 9, 11, 14, 15, 16, 19, 21, 24, 25, 27, 29, 30, 32, 35, 37},
                   {0, 3, 4, 8, 10, 12, 13, 17, 18, 20, 22, 23, 26, 28, 31, 33, 36, 38, 39} \cup TURN_BIT,
                   <<4, 5, 6, 6, 6, 6, 6>>, 1, 1))
    @@ (<<0, 6>> :> Node({1, 2, 5, 6, 7, 9, 11, 14, 15, 16, 19, 21, 24, 25, 27, 29, 30, 32, 37} \cup TURN_BIT,
                   {0, 3, 4, 8, 10, 12, 13, 17, 18, 20, 22, 23, 26, 28, 31, 35, 36, 38, 39},
                   <<4, 4, 6, 6, 6, 6, 6>>, 2, 3))
    @@ (<<0, 6, 0>> :> Node({1, 2, 5, 6, 7, 9, 11, 14, 15, 16, 19, 21, 24, 25, 27, 29, 30, 32, 34, 37},
                   {0, 3, 4, 8, 10, 12, 13, 17, 18, 20, 22, 23, 26, 28, 31, 35, 36, 38, 39} \cup TURN_BIT,
                   <<5, 4, 6, 6, 6, 6, 6>>, 0, 1))
    @@ (<<0, 6, 1>> :> Node({1, 2, 5, 6, 7, 9, 11, 14, 15, 16, 19, 21, 24, 25, 27, 29, 30, 32, 33, 37},
                   {0, 3, 4, 8, 10, 12, 13, 17, 18, 20, 22, 23, 26, 28, 31, 35, 36, 38, 39} \cup TURN_BIT,
                   <<4, 5, 6, 6, 6, 6, 6>>, 1, 1))
    @@ (<<1>> :> Node({1, 2, 5, 6, 7, 9, 11, 14, 15, 16, 19, 21, 24, 25, 29, 30, 32, 33, 37},
                   {0, 3, 4, 8, 10, 12, 13, 17, 18, 20, 22, 23, 26, 28, 31, 36, 38, 39} \cup TURN_BIT,
                   <<3, 5, 6, 6, 6, 6, 5>>, 8, 12))
    @@ (<<1, 0>> :> Node({1, 2, 5, 6, 7, 9, 11, 14, 15, 16, 19, 21, 24, 25, 29, 30, 32, 33, 37} \cup TURN_BIT,
                   {0, 3, 4, 8, 10, 12, 13, 17, 18, 20, 22, 23, 26, 27, 28, 31, 36, 38, 39},
                   <<4, 5, 6, 6, 6, 6, 5>>, 2, 4))
    @@ (<<1, 0, 0>> :> Node({1, 2, 5, 6, 7, 9, 11, 14, 15, 16, 19, 21, 24, 25, 29, 30, 32, 33, 34, 37},
                   {0, 3, 4, 8, 10, 12, 13, 17, 18, 20, 22, 23, 26, 27, 28, 31, 36, 38, 39} \cup TURN_BIT,
                   <<5, 5, 6, 6, 6, 6, 5>>, 0, 1))
    @@ (<<1, 0, 1>> :> Node({1, 2, 5, 6, 7, 9, 11, 14, 15, 16, 19, 21, 24, 25, 29, 30, 32, 33, 37, 40, 61},
                   {0, 3, 4, 8, 10, 12, 13, 17, 18, 20, 22, 23, 26, 27, 28, 31, 36, 38, 39} \cup TURN_BIT,
                   <<4, 6, 6, 6, 6, 6, 5>>, 0, 1))
    @@ (<<1, 0, 6>> :> Node({1, 2, 5, 6, 7, 9, 11, 14, 15, 16, 19, 21, 24, 25, 29, 30, 32, 33, 35, 37},
                   {0, 3, 4, 8, 10, 12, 13, 17, 18, 20, 22, 23, 26, 27, 28, 31, 36, 38, 39} \cup TURN_BIT,
                   <<4, 5, 6, 6, 6, 6, 6>>, 1, 1))
    @@ (<<1, 1>> :> Node({1, 2, 5, 6, 7, 9, 11, 14, 15, 16, 19, 21, 24, 25, 29, 30, 32, 33, 37} \cup TURN_BIT,
                   {0, 3, 4, 8, 10, 12, 13, 17, 18, 20, 22, 23, 26, 28, 31, 36, 38, 39, 40},
                   <<3, 6, 6, 6, 6, 6, 5>>, 3, 3))
    @@ (<<1, 1, 0>> :> Node({1, 2, 5, 6, 7, 9, 11, 14, 15, 16, 19, 21, 24, 25, 27, 29, 30, 32, 33, 37},
                   {0, 3, 4, 8, 10, 12, 13, 17, 18, 20, 22, 23, 26, 28, 31, 36, 38, 39, 40} \cup TURN_BIT,
                   <<4, 6, 6, 6, 6, 6, 5>>, 1, 1))
    @@ (<<1, 1, 6>> :> Node({1, 2, 5, 6, 7, 9, 11, 14, 15, 16, 19, 21, 24, 25, 29, 30, 32, 33, 35, 37},
                   {0, 3, 4, 8, 10, 12, 13, 17, 18, 20, 22, 23, 26, 28, 31, 36, 38, 39, 40} \cup TURN_BIT,
                   <<3, 6, 6, 6, 6, 6, 6>>, 1, 1))
    @@ (<<1, 6>> :> Node({1, 2, 5, 6, 7, 9, 11, 14, 15, 16, 19, 21, 24, 25, 29, 30, 32, 33, 37} \cup TURN_BIT,
                   {0, 3, 4, 8, 10, 12, 13, 17, 18, 20, 22, 23, 26, 28, 31, 35, 36, 38, 39},
                   <<3, 5, 6, 6, 6, 6, 6>>, 3, 4))
    @@ (<<6>> :> Node({1, 2, 5, 6, 7, 9, 11, 14, 15, 16, 19, 21, 24, 25, 29, 30, 32, 35, 37},
                   {0, 3, 4, 8, 10, 12, 13, 17, 18, 20, 22, 23, 26, 28, 31, 36, 38, 39} \cup TURN_BIT,
                   <<3, 4, 6, 6, 6, 6, 6>>, 6, 9))
    @@ (<<6, 0>> :> Node({1, 2, 5, 6, 7, 9, 11, 14, 15, 16, 19, 21, 24, 25, 29, 30, 32, 35, 37} \cup TURN_BIT,
                   {0, 3, 4, 8, 10, 12, 13, 17, 18, 20, 22, 23, 26, 27, 28, 31, 36, 38, 39},
                   <<4, 4, 6, 6, 6, 6, 6>>, 4, 5))
    @@ (<<6, 0, 0>> :> Node({1, 2, 5, 6, 7, 9, 11, 14, 15, 16, 19, 21, 24, 25, 29, 30, 32, 34, 35, 37},
                   {0, 3, 4, 8, 10, 12, 13, 17, 18, 20, 22, 23, 26, 27, 28, 31, 36, 38, 39} \cup TURN_BIT,
                   <<5, 4, 6, 6, 6, 6, 6>>, 2, 3))
    @@ (<<6, 0, 0, 0>> :> Node({1, 2, 5, 6, 7, 9, 11, 14, 15, 16, 19, 21, 24, 25, 29, 30, 32, 34, 35, 37} \cup TURN_BIT,
                   {0, 3, 4, 8, 10, 12, 13, 17, 18, 20, 22, 23, 26, 27, 28, 31, 36, 38, 39, 41},
                   <<6, 4, 6, 6, 6, 6, 6>>, 1, 1))
    @@ (<<6, 0, 0, 1>> :> Node({1, 2, 5, 6, 7, 9, 11, 14, 15, 16, 19, 21, 24, 25, 29, 30, 32, 34, 35, 37} \cup TURN_BIT,
                   {0, 3, 4, 8, 10, 12, 13, 17, 18, 20, 22, 23, 26, 27, 28, 31, 33, 36, 38, 39},
                   <<5, 5, 6, 6, 6, 6, 6>>, 0, 1))
    @@ (<<6, 0, 1>> :> Node({1, 2, 5, 6, 7, 9, 11, 14, 15, 16, 19, 21, 24, 25, 29, 30, 32, 33, 35, 37},
                   {0, 3, 4, 8, 10, 12, 13, 17, 18, 20, 22, 23, 26, 27, 28, 31, 36, 38, 39} \cup TURN_BIT,
                   <<4, 5, 6, 6, 6, 6, 6>>, 1, 1))
    @@ (<<6, 1>> :> Node({1, 2, 5, 6, 7, 9, 11, 14, 15, 16, 19, 21, 24, 25, 29, 30, 32, 35, 37} \cup TURN_BIT,
                   {0, 3, 4, 8, 10, 12, 13, 17, 18, 20, 22, 23, 26, 28, 31, 33, 36, 38, 39},
                   <<3, 5, 6, 6, 6, 6, 6>>, 2, 3))
    @@ (<<6, 1, 0>> :> Node({1, 2, 5, 6, 7, 9, 11, 14, 15, 16, 19, 21, 24, 25, 27, 29, 30, 32, 35, 37},
                   {0, 3, 4, 8, 10, 12, 13, 17, 18, 20, 22, 23, 26, 28, 31, 33, 36, 38, 39} \cup TURN_BIT,
                   <<4, 5, 6, 6, 6, 6, 6>>, 1, 1))
    @@ (<<6, 1, 1>> :> Node({1, 2, 5, 6, 7, 9, 11, 14, 15, 16, 19, 21, 24, 25, 29, 30, 32, 35, 37, 40, 61},
                   {0, 3, 4, 8, 10, 12, 13, 17, 18, 20, 22, 23, 26, 28, 31, 33, 36, 38, 39} \cup TURN_BIT,
                   <<3, 6, 6, 6, 6, 6, 6>>, 0, 1))

\* the tree of the engine playing PLAYER_B with budget 72 after 36 disks, when
\* column 0 has three free cells, column 5 two and column 6 one; the calls and
\* their returns: init_MCTS(1, 72) = 7; input_MCTS(0) = 1; input_MCTS(2) = 6;
\* input_MCTS(2) = 5; input_MCTS(3) = 5; input_MCTS(6) = 2; input_MCTS(2) = 3;
\* input_MCTS(6) = 5; input_MCTS(5) = 6; input_MCTS(1) = 1; input_MCTS(4) = 1;
\* input_MCTS(0) = 0; input_MCTS(3) = 3; input_MCTS(3) = 1; input_MCTS(1) = 2;
\* input_MCTS(3) = 4; input_MCTS(4) = 4; input_MCTS(2) = 4; input_MCTS(6) = 4;
MergeB72 ==
    (<<>> :> Node({2, 3, 4, 6, 7, 11, 12, 13, 14, 16, 17, 22, 25, 28, 31, 38, 39, 40} \cup TURN_BIT,
                {0, 1, 5, 8, 9, 10, 15, 18, 19, 20, 21, 23, 24, 26, 30, 32, 33, 37},
                <<3, 6, 6, 6, 6, 4, 5>>, 59, 69))
    @@ (<<0>> :> Node({2, 3, 4, 6, 7, 11, 12, 13, 14, 16, 17, 22, 25, 27, 28, 31, 38, 39, 40},
                   {0, 1, 5, 8, 9, 10, 15, 18, 19, 20, 21, 23, 24, 26, 30, 32, 33, 37} \cup TURN_BIT,
                   <<4, 6, 6, 6, 6, 4, 5>>, 13, 14))
    @@ (<<0, 0>> :> Node({2, 3, 4, 6, 7, 11, 12, 13, 14, 16, 17, 22, 25, 27, 28, 31, 38, 39, 40} \cup TURN_BIT,
                   {0, 1, 5, 8, 9, 10, 15, 18, 19, 20, 21, 23, 24, 26, 30, 32, 33, 34, 37, 61},
                   <<5, 6, 6, 6, 6, 4, 5>>, 8, 8))
    @@ (<<0, 5>> :> Node({2, 3, 4, 6, 7, 11, 12, 13, 14, 16, 17, 22, 25, 27, 28, 31, 38, 39, 40} \cup TURN_BIT,
                   {0, 1, 5, 8, 9, 10, 15, 18, 19, 20, 21, 23, 24, 26, 29, 30, 32, 33, 37},
                   <<4, 6, 6, 6, 6, 5, 5>>, 3, 4))
    @@ (<<0, 5, 0>> :> Node({2, 3, 4, 6, 7, 11, 12, 13, 14, 16, 17, 22, 25, 27, 28, 31, 34, 38, 39, 40},
                   {0, 1, 5, 8, 9, 10, 15, 18, 19, 20, 21, 23, 24, 26, 29, 30, 32, 33, 37} \cup TURN_BIT,
                   <<5, 6, 6, 6, 6, 5, 5>>, 1, 1))
    @@ (<<0, 5, 5>> :> Node({2, 3, 4, 6, 7, 11, 12, 13, 14, 16, 17, 22, 25, 27, 28, 31, 36, 38, 39, 40},
                   {0, 1, 5, 8, 9, 10, 15, 18, 19, 20, 21, 23, 24, 26, 29, 30, 32, 33, 37} \cup TURN_BIT,
                   <<4, 6, 6, 6, 6, 6, 5>>, 0, 1))
    @@ (<<0, 5, 6>> :> Node({2, 3, 4, 6, 7, 11, 12, 13, 14, 16, 17, 22, 25, 27, 28, 31, 35, 38, 39, 40},
                   {0, 1, 5, 8, 9, 10, 15, 18, 19, 20, 21, 23, 24, 26, 29, 30, 32, 33, 37} \cup TURN_BIT,
                   <<4, 6, 6, 6, 6, 5, 6>>, 1, 1))
    @@ (<<0, 6>> :> Node({2, 3, 4, 6, 7, 11, 12, 13, 14, 16, 17, 22, 25, 27, 28, 31, 38, 39, 40} \cup TURN_BIT,
                   {0, 1, 5, 8, 9, 10, 15, 18, 19, 20, 21, 23, 24, 26, 30, 32, 33, 35, 37},
                   <<4, 6, 6, 6, 6, 4, 6>>, 1, 1))
    @@ (<<5>> :> Node({2, 3, 4, 6, 7, 11, 12, 13, 14, 16, 17, 22, 25, 28, 29, 31, 38, 39, 40},
                   {0, 1, 5, 8, 9, 10, 15, 18, 19, 20, 21, 23, 24, 26, 30, 32, 33, 37} \cup TURN_BIT,
                   <<3, 6, 6, 6, 6, 5, 5>>, 22, 26))
    @@ (<<5, 0>> :> Node({2, 3, 4, 6, 7, 11, 12, 13, 14, 16, 17, 22, 25, 28, 29, 31, 38, 39, 40} \cup TURN_BIT,
                   {0, 1, 5, 8, 9, 10, 15, 18, 19, 20, 21, 23, 24, 26, 27, 30, 32, 33, 37},
                   <<4, 6, 6, 6, 6, 5, 5>>, 4, 6))
    @@ (<<5, 0, 0>> :> Node({2, 3, 4, 6, 7, 11, 12, 13, 14, 16, 17, 22, 25, 28, 29, 31, 34, 38, 39, 40},
                   {0, 1, 5, 8, 9, 10, 15, 18, 19, 20, 21, 23, 24, 26, 27, 30, 32, 33, 37} \cup TURN_BIT,
                   <<5, 6, 6, 6, 6, 5, 5>>, 1, 1))
    @@ (<<5, 0, 5>> :> Node({2, 3, 4, 6, 7, 11, 12, 13, 14, 16, 17, 22, 25, 28, 29, 31, 36, 38, 39, 40},
                   {0, 1, 5, 8, 9, 10, 15, 18, 19, 20, 21, 23, 24, 26, 27, 30, 32, 33, 37} \cup TURN_BIT,
                   <<4, 6, 6, 6, 6, 6, 5>>, 1, 3))
    @@ (<<5, 0, 5, 0>> :> Node({2, 3, 4, 6, 7, 11, 12, 13, 14, 16, 17, 22, 25, 28, 29, 31, 36, 38, 39, 40} \cup TURN_BIT,
                   {0, 1, 5, 8, 9, 10, 15, 18, 19, 20, 21, 23, 24, 26, 27, 30, 32, 33, 34, 37, 61},
                   <<5, 6, 6, 6, 6, 6, 5>>, 1, 1))
    @@ (<<5, 0, 5, 6>> :> Node({2, 3, 4, 6, 7, 11, 12, 13, 14, 16, 17, 22, 25, 28, 29, 31, 36, 38, 39, 40} \cup TURN_BIT,
                   {0, 1, 5, 8, 9, 10, 15, 18, 19, 20, 21, 23, 24, 26, 27, 30, 32, 33, 35, 37},
                   <<4, 6, 6, 6, 6, 6, 6>>, 0, 1))
    @@ (<<5, 0, 6>> :> Node({2, 3, 4, 6, 7, 11, 12, 13, 14, 16, 17, 22, 25, 28, 29, 31, 35, 38, 39, 40},
                   {0, 1, 5, 8, 9, 10, 15, 18, 19, 20, 21, 23, 24, 26, 27, 30, 32, 33, 37} \cup TURN_BIT,
                   <<4, 6, 6, 6, 6, 5, 6>>, 1, 1))
    @@ (<<5, 5>> :> Node({2, 3, 4, 6, 7, 11, 12, 13, 14, 16, 17, 22, 25, 28, 29, 31, 38, 39, 40} \cup TURN_BIT,
                   {0, 1, 5, 8, 9, 10, 15, 18, 19, 20, 21, 23, 24, 26, 30, 32, 33, 36, 37, 61},
                   <<3, 6, 6, 6, 6, 6, 5>>, 15, 15))
    @@ (<<5, 6>> :> Node({2, 3, 4, 6, 7, 11, 12, 13, 14, 16, 17, 22, 25, 28, 29, 31, 38, 39, 40} \cup TURN_BIT,
                   {0, 1, 5, 8, 9, 10, 15, 18, 19, 20, 21, 23, 24, 26, 30, 32, 33, 35, 37},
                   <<3, 6, 6, 6, 6, 5, 6>>, 1, 3))
    @@ (<<5, 6, 0>> :> Node({2, 3, 4, 6, 7, 11, 12, 13, 14, 16, 17, 22, 25, 27, 28, 29, 31, 38, 39, 40},
                   {0, 1, 5, 8, 9, 10, 15, 18, 19, 20, 21, 23, 24, 26, 30, 32, 33, 35, 37} \cup TURN_BIT,
                   <<4, 6, 6, 6, 6, 5, 6>>, 1, 1))
    @@ (<<5, 6, 5>> :> Node({2, 3, 4, 6, 7, 11, 12, 13, 14, 16, 17, 22, 25, 28, 29, 31, 36, 38, 39, 40},
                   {0, 1, 5, 8, 9, 10, 15, 18, 19, 20, 21, 23, 24, 26, 30, 32, 33, 35, 37} \cup TURN_BIT,
                   <<3, 6, 6, 6, 6, 6, 6>>, 0, 1))
    @@ (<<6>> :> Node({2, 3, 4, 6, 7, 11, 12, 13, 14, 16, 17, 22, 25, 28, 31, 35, 38, 39, 40},
                   {0, 1, 5, 8, 9, 10, 15, 18, 19, 20, 21, 23, 24, 26, 30, 32, 33, 37} \cup TURN_BIT,
                   <<3, 6, 6, 6, 6, 4, 6>>, 23, 28))
    @@ (<<6, 0>> :> Node({2, 3, 4, 6, 7, 11, 12, 13, 14, 16, 17, 22, 25, 28, 31, 35, 38, 39, 40} \cup TURN_BIT,
                   {0, 1, 5, 8, 9, 10, 15, 18, 19, 20, 21, 23, 24, 26, 27, 30, 32, 33, 37},
                   <<4, 6, 6, 6, 6, 4, 6>>, 21, 23))
    @@ (<<6, 0, 0>> :> Node({2, 3, 4, 6, 7, 11, 12, 13, 14, 16, 17, 22, 25, 28, 31, 34, 35, 38, 39, 40},
                   {0, 1, 5, 8, 9, 10, 15, 18, 19, 20, 21, 23, 24, 26, 27, 30, 32, 33, 37} \cup TURN_BIT,
                   <<5, 6, 6, 6, 6, 4, 6>>, 10, 12))
    @@ (<<6, 0, 0, 0>> :> Node({2, 3, 4, 6, 7, 11, 12, 13, 14, 16, 17, 22, 25, 28, 31, 34, 35, 38, 39, 40} \cup TURN_BIT,
                   {0, 1, 5, 8, 9, 10, 15, 18, 19, 20, 21, 23, 24, 26, 27, 30, 32, 33, 37, 41},
                   <<6, 6, 6, 6, 6, 4, 6>>, 10, 10))
    @@ (<<6, 0, 0, 0, 5>> :> Node({2, 3, 4, 6, 7, 11, 12, 13, 14, 16, 17, 22, 25, 28, 29, 31, 34, 35, 38, 39, 40},
                   {0, 1, 5, 8, 9, 10, 15, 18, 19, 20, 21, 23, 24, 26, 27, 30, 32, 33, 37, 41} \cup TURN_BIT,
                   <<6, 6, 6, 6, 6, 5, 6>>, 9, 9))
    @@ (<<6, 0, 0, 0, 5, 5>> :> Node({2, 3, 4, 6, 7, 11, 12, 13, 14, 16, 17, 22, 25, 28, 29, 31, 34, 35, 38, 39, 40} \cup TURN_BIT,
                   {0, 1, 5, 8, 9, 10, 15, 18, 19, 20, 21, 23, 24, 26, 27, 30, 32, 33, 36, 37, 41, 61},
                   <<6, 6, 6, 6, 6, 6, 6>>, 8, 8))
    @@ (<<6, 0, 0, 5>> :> Node({2, 3, 4, 6, 7, 11, 12, 13, 14, 16, 17, 22, 25, 28, 31, 34, 35, 38, 39, 40} \cup TURN_BIT,
                   {0, 1, 5, 8, 9, 10, 15, 18, 19, 20, 21, 23, 24, 26, 27, 29, 30, 32, 33, 37},
                   <<5, 6, 6, 6, 6, 5, 6>>, 0, 1))
    @@ (<<6, 0, 5>> :> Node({2, 3, 4, 6, 7, 11, 12, 13, 14, 16, 17, 22, 25, 28, 29, 31, 35, 38, 39, 40},
                   {0, 1, 5, 8, 9, 10, 15, 18, 19, 20, 21, 23, 24, 26, 27, 30, 32, 33, 37} \cup TURN_BIT,
                   <<4, 6, 6, 6, 6, 5, 6>>, 10, 10))
    @@ (<<6, 0, 5, 0>> :> Node({2, 3, 4, 6, 7, 11, 12, 13, 14, 16, 17, 22, 25, 28, 29, 31, 35, 38, 39, 40} \cup TURN_BIT,
                   {0, 1, 5, 8, 9, 10, 15, 18, 19, 20, 21, 23, 24, 26, 27, 30, 32, 33, 34, 37, 61},
                   <<5, 6, 6, 6, 6, 5, 6>>, 1, 1))
    @@ (<<6, 0, 5, 5>> :> Node({2, 3, 4, 6, 7, 11, 12, 13, 14, 16, 17, 22, 25, 28, 29, 31, 35, 38, 39, 40} \cup TURN_BIT,
                   {0, 1, 5, 8, 9, 10, 15, 18, 19, 20, 21, 23, 24, 26, 27, 30, 32, 33, 36, 37, 61},
                   <<4, 6, 6, 6, 6, 6, 6>>, 8, 8))
    @@ (<<6, 5>> :> Node({2, 3, 4, 6, 7, 11, 12, 13, 14, 16, 17, 22, 25, 28, 31, 35, 38, 39, 40} \cup TURN_BIT,
                   {0, 1, 5, 8, 9, 10, 15, 18, 19, 20, 21, 23, 24, 26, 29, 30, 32, 33, 37},
                   <<3, 6, 6, 6, 6, 5, 6>>, 1, 4))
    @@ (<<6, 5, 0>> :> Node({2, 3, 4, 6, 7, 11, 12, 13, 14, 16, 17, 22, 25, 27, 28, 31, 35, 38, 39, 40},
                   {0, 1, 5, 8, 9, 10, 15, 18, 19, 20, 21, 23, 24, 26, 29, 30, 32, 33, 37} \cup TURN_BIT,
                   <<4, 6, 6, 6, 6, 5, 6>>, 1, 1))
    @@ (<<6, 5, 5>> :> Node({2, 3, 4, 6, 7, 11, 12, 13, 14, 16, 17, 22, 25, 28, 31, 35, 36, 38, 39, 40},
                   {0, 1, 5, 8, 9, 10, 15, 18, 19, 20, 21, 23, 24, 26, 29, 30, 32, 33, 37} \cup TURN_BIT,
                   <<3, 6, 6, 6, 6, 6, 6>>, 0, 2))
    @@ (<<6, 5, 5, 0>> :> Node({2, 3, 4, 6, 7, 11, 12, 13, 14, 16, 17, 22, 25, 28, 31, 35, 36, 38, 39, 40} \cup TURN_BIT,
                   {0, 1, 5, 8, 9, 10, 15, 18, 19, 20, 21, 23, 24, 26, 27, 29, 30, 32, 33, 37},
                   <<4, 6, 6, 6, 6, 6, 6>>, 0, 1))

\* the tree of the engine playing PLAYER_A with budget 72 after 37 disks, when
\* columns 0, 2 and 5 have one free cell each and column 1 has two; the calls
\* and their returns: init_MCTS(0, 72) = 3; input_MCTS(5) = 2; input_MCTS(5) =
\* 4; input_MCTS(1) = 2; input_MCTS(0) = 2; input_MCTS(2) = 4; input_MCTS(1) =
\* 1; input_MCTS(3) = 5; input_MCTS(5) = 6; input_MCTS(3) = 3; input_MCTS(4) =
\* 3; input_MCTS(0) = 0; input_MCTS(0) = 6; input_MCTS(4) = 3; input_MCTS(4) =
\* 4; input_MCTS(5) = 2; input_MCTS(1) = 6; input_MCTS(6) = 6; input_MCTS(0) =
\* 6;
PickA72 ==
    (<<>> :> Node({0, 2, 3, 4, 7, 9, 11, 14, 15, 18, 19, 20, 24, 28, 31, 32, 35, 37, 38},
                {1, 5, 6, 8, 10, 12, 13, 16, 17, 21, 22, 23, 25, 26, 27, 29, 30, 34} \cup TURN_BIT,
                <<5, 4, 5, 6, 6, 5, 6>>, 17, 47))
    @@ (<<0>> :> Node({0, 2, 3, 4, 7, 9, 11, 14, 15, 18, 19, 20, 24, 28, 31, 32, 35, 37, 38} \cup TURN_BIT,
                   {1, 5, 6, 8, 10, 12, 13, 16, 17, 21, 22, 23, 25, 26, 27, 29, 30, 34, 41},
                   <<6, 4, 5, 6, 6, 5, 6>>, 7, 11))
    @@ (<<0, 1>> :> Node({0, 2, 3, 4, 7, 9, 11, 14, 15, 18, 19, 20, 24, 28, 31, 32, 33, 35, 37, 38},
                   {1, 5, 6, 8, 10, 12, 13, 16, 17, 21, 22, 23, 25, 26, 27, 29, 30, 34, 41} \cup TURN_BIT,
                   <<6, 5, 5, 6, 6, 5, 6>>, 0, 1))
    @@ (<<0, 2>> :> Node({0, 2, 3, 4, 7, 9, 11, 14, 15, 18, 19, 20, 24, 28, 31, 32, 35, 37, 38, 39},
                   {1, 5, 6, 8, 10, 12, 13, 16, 17, 21, 22, 23, 25, 26, 27, 29, 30, 34, 41} \cup TURN_BIT,
                   <<6, 4, 6, 6, 6, 5, 6>>, 0, 1))
    @@ (<<0, 5>> :> Node({0, 2, 3, 4, 7, 9, 11, 14, 15, 18, 19, 20, 24, 28, 31, 32, 35, 36, 37, 38, 61},
                   {1, 5, 6, 8, 10, 12, 13, 16, 17, 21, 22, 23, 25, 26, 27, 29, 30, 34, 41} \cup TURN_BIT,
                   <<6, 4, 5, 6, 6, 6, 6>>, 7, 8))
    @@ (<<1>> :> Node({0, 2, 3, 4, 7, 9, 11, 14, 15, 18, 19, 20, 24, 28, 31, 32, 35, 37, 38} \cup TURN_BIT,
                   {1, 5, 6, 8, 10, 12, 13, 16, 17, 21, 22, 23, 25, 26, 27, 29, 30, 33, 34},
                   <<5, 5, 5, 6, 6, 5, 6>>, 4, 12))
    @@ (<<1, 0>> :> Node({0, 2, 3, 4, 7, 9, 11, 14, 15, 18, 19, 20, 24, 28, 31, 32, 35, 37, 38, 41},
                   {1, 5, 6, 8, 10, 12, 13, 16, 17, 21, 22, 23, 25, 26, 27, 29, 30, 33, 34} \cup TURN_BIT,
                   <<6, 5, 5, 6, 6, 5, 6>>, 0, 1))
    @@ (<<1, 1>> :> Node({0, 2, 3, 4, 7, 9, 11, 14, 15, 18, 19, 20, 24, 28, 31, 32, 35, 37, 38, 40},
                   {1, 5, 6, 8, 10, 12, 13, 16, 17, 21, 22, 23, 25, 26, 27, 29, 30, 33, 34} \cup TURN_BIT,
                   <<5, 6, 5, 6, 6, 5, 6>>, 1, 4))
    @@ (<<1, 1, 0>> :> Node({0, 2, 3, 4, 7, 9, 11, 14, 15, 18, 19, 20, 24, 28, 31, 32, 35, 37, 38, 40} \cup TURN_BIT,
                   {1, 5, 6, 8, 10, 12, 13, 16, 17, 21, 22, 23, 25, 26, 27, 29, 30, 33, 34, 41, 61},
                   <<6, 6, 5, 6, 6, 5, 6>>, 1, 1))
    @@ (<<1, 1, 2>> :> Node({0, 2, 3, 4, 7, 9, 11, 14, 15, 18, 19, 20, 24, 28, 31, 32, 35, 37, 38, 40} \cup TURN_BIT,
                   {1, 5, 6, 8, 10, 12, 13, 16, 17, 21, 22, 23, 25, 26, 27, 29, 30, 33, 34, 39},
                   <<5, 6, 6, 6, 6, 5, 6>>, 0, 1))
    @@ (<<1, 1, 5>> :> Node({0, 2, 3, 4, 7, 9, 11, 14, 15, 18, 19, 20, 24, 28, 31, 32, 35, 37, 38, 40} \cup TURN_BIT,
                   {1, 5, 6, 8, 10, 12, 13, 16, 17, 21, 22, 23, 25, 26, 27, 29, 30, 33, 34, 36},
                   <<5, 6, 5, 6, 6, 6, 6>>, 0, 1))
    @@ (<<1, 2>> :> Node({0, 2, 3, 4, 7, 9, 11, 14, 15, 18, 19, 20, 24, 28, 31, 32, 35, 37, 38, 39},
                   {1, 5, 6, 8, 10, 12, 13, 16, 17, 21, 22, 23, 25, 26, 27, 29, 30, 33, 34} \cup TURN_BIT,
                   <<5, 5, 6, 6, 6, 5, 6>>, 2, 4))
    @@ (<<1, 2, 0>> :> Node({0, 2, 3, 4, 7, 9, 11, 14, 15, 18, 19, 20, 24, 28, 31, 32, 35, 37, 38, 39} \cup TURN_BIT,
                   {1, 5, 6, 8, 10, 12, 13, 16, 17, 21, 22, 23, 25, 26, 27, 29, 30, 33, 34, 41, 61},
                   <<6, 5, 6, 6, 6, 5, 6>>, 1, 1))
    @@ (<<1, 2, 1>> :> Node({0, 2, 3, 4, 7, 9, 11, 14, 15, 18, 19, 20, 24, 28, 31, 32, 35, 37, 38, 39} \cup TURN_BIT,
                   {1, 5, 6, 8, 10, 12, 13, 16, 17, 21, 22, 23, 25, 26, 27, 29, 30, 33, 34, 40},
                   <<5, 6, 6, 6, 6, 5, 6>>, 1, 1))
    @@ (<<1, 2, 5>> :> Node({0, 2, 3, 4, 7, 9, 11, 14, 15, 18, 19, 20, 24, 28, 31, 32, 35, 37, 38, 39} \cup TURN_BIT,
                   {1, 5, 6, 8, 10, 12, 13, 16, 17, 21, 22, 23, 25, 26, 27, 29, 30, 33, 34, 36},
                   <<5, 5, 6, 6, 6, 6, 6>>, 0, 1))
    @@ (<<1, 5>> :> Node({0, 2, 3, 4, 7, 9, 11, 14, 15, 18, 19, 20, 24, 28, 31, 32, 35, 36, 37, 38, 61},
                   {1, 5, 6, 8, 10, 12, 13, 16, 17, 21, 22, 23, 25, 26, 27, 29, 30, 33, 34} \cup TURN_BIT,
                   <<5, 5, 5, 6, 6, 6, 6>>, 0, 1))
    @@ (<<2>> :> Node({0, 2, 3, 4, 7, 9, 11, 14, 15, 18, 19, 20, 24, 28, 31, 32, 35, 37, 38} \cup TURN_BIT,
                   {1, 5, 6, 8, 10, 12, 13, 16, 17, 21, 22, 23, 25, 26, 27, 29, 30, 34, 39},
                   <<5, 4, 6, 6, 6, 5, 6>>, 4, 8))
    @@ (<<2, 0>> :> Node({0, 2, 3, 4, 7, 9, 11, 14, 15, 18, 19, 20, 24, 28, 31, 32, 35, 37, 38, 41},
                   {1, 5, 6, 8, 10, 12, 13, 16, 17, 21, 22, 23, 25, 26, 27, 29, 30, 34, 39} \cup TURN_BIT,
                   <<6, 4, 6, 6, 6, 5, 6>>, 0, 1))
    @@ (<<2, 1>> :> Node({0, 2, 3, 4, 7, 9, 11, 14, 15, 18, 19, 20, 24, 28, 31, 32, 33, 35, 37, 38},
                   {1, 5, 6, 8, 10, 12, 13, 16, 17, 21, 22, 23, 25, 26, 27, 29, 30, 34, 39} \cup TURN_BIT,
                   <<5, 5, 6, 6, 6, 5, 6>>, 2, 4))
    @@ (<<2, 1, 0>> :> Node({0, 2, 3, 4, 7, 9, 11, 14, 15, 18, 19, 20, 24, 28, 31, 32, 33, 35, 37, 38} \cup TURN_BIT,
                   {1, 5, 6, 8, 10, 12, 13, 16, 17, 21, 22, 23, 25, 26, 27, 29, 30, 34, 39, 41},
                   <<6, 5, 6, 6, 6, 5, 6>>, 1, 1))
    @@ (<<2, 1, 1>> :> Node({0, 2, 3, 4, 7, 9, 11, 14, 15, 18, 19, 20, 24, 28, 31, 32, 33, 35, 37, 38} \cup TURN_BIT,
                   {1, 5, 6, 8, 10, 12, 13, 16, 17, 21, 22, 23, 25, 26, 27, 29, 30, 34, 39, 40},
                   <<5, 6, 6, 6, 6, 5, 6>>, 1, 1))
    @@ (<<2, 1, 5>> :> Node({0, 2, 3, 4, 7, 9, 11, 14, 15, 18, 19, 20, 24, 28, 31, 32, 33, 35, 37, 38} \cup TURN_BIT,
                   {1, 5, 6, 8, 10, 12, 13, 16, 17, 21, 22, 23, 25, 26, 27, 29, 30, 34, 36, 39},
                   <<5, 5, 6, 6, 6, 6, 6>>, 0, 1))
    @@ (<<2, 5>> :> Node({0, 2, 3, 4, 7, 9, 11, 14, 15, 18, 19, 20, 24, 28, 31, 32, 35, 36, 37, 38, 61},
                   {1, 5, 6, 8, 10, 12, 13, 16, 17, 21, 22, 23, 25, 26, 27, 29, 30, 34, 39} \cup TURN_BIT,
                   <<5, 4, 6, 6, 6, 6, 6>>, 0, 1))
    @@ (<<5>> :> Node({0, 2, 3, 4, 7, 9, 11, 14, 15, 18, 19, 20, 24, 28, 31, 32, 35, 37, 38} \cup TURN_BIT,
                   {1, 5, 6, 8, 10, 12, 13, 16, 17, 21, 22, 23, 25, 26, 27, 29, 30, 34, 36},
                   <<5, 4, 5, 6, 6, 6, 6>>, 1, 15))
    @@ (<<5, 0>> :> Node({0, 2, 3, 4, 7, 9, 11, 14, 15, 18, 19, 20, 24, 28, 31, 32, 35, 37, 38, 41},
                   {1, 5, 6, 8, 10, 12, 13, 16, 17, 21, 22, 23, 25, 26, 27, 29, 30, 34, 36} \cup TURN_BIT,
                   <<6, 4, 5, 6, 6, 6, 6>>, 0, 4))
    @@ (<<5, 0, 1>> :> Node({0, 2, 3, 4, 7, 9, 11, 14, 15, 18, 19, 20, 24, 28, 31, 32, 35, 37, 38, 41} \cup TURN_BIT,
                   {1, 5, 6, 8, 10, 12, 13, 16, 17, 21, 22, 23, 25, 26, 27, 29, 30, 33, 34, 36},
                   <<6, 5, 5, 6, 6, 6, 6>>, 0, 1))
    @@ (<<5, 0, 2>> :> Node({0, 2, 3, 4, 7, 9, 11, 14, 15, 18, 19, 20, 24, 28, 31, 32, 35, 37, 38, 41} \cup TURN_BIT,
                   {1, 5, 6, 8, 10, 12, 13, 16, 17, 21, 22, 23, 25, 26, 27, 29, 30, 34, 36, 39},
                   <<6, 4, 6, 6, 6, 6, 6>>, 0, 2))
    @@ (<<5, 0, 2, 1>> :> Node({0, 2, 3, 4, 7, 9, 11, 14, 15, 18, 19, 20, 24, 28, 31, 32, 33, 35, 37, 38, 41},
                   {1, 5, 6, 8, 10, 12, 13, 16, 17, 21, 22, 23, 25, 26, 27, 29, 30, 34, 36, 39} \cup TURN_BIT,
                   <<6, 5, 6, 6, 6, 6, 6>>, 0, 1))
    @@ (<<5, 1>> :> Node({0, 2, 3, 4, 7, 9, 11, 14, 15, 18, 19, 20, 24, 28, 31, 32, 33, 35, 37, 38},
                   {1, 5, 6, 8, 10, 12, 13, 16, 17, 21, 22, 23, 25, 26, 27, 29, 30, 34, 36} \cup TURN_BIT,
                   <<5, 5, 5, 6, 6, 6, 6>>, 0, 4))
    @@ (<<5, 1, 0>> :> Node({0, 2, 3, 4, 7, 9, 11, 14, 15, 18, 19, 20, 24, 28, 31, 32, 33, 35, 37, 38} \cup TURN_BIT,
                   {1, 5, 6, 8, 10, 12, 13, 16, 17, 21, 22, 23, 25, 26, 27, 29, 30, 34, 36, 41},
                   <<6, 5, 5, 6, 6, 6, 6>>, 0, 1))
    @@ (<<5, 1, 1>> :> Node({0, 2, 3, 4, 7, 9, 11, 14, 15, 18, 19, 20, 24, 28, 31, 32, 33, 35, 37, 38} \cup TURN_BIT,
                   {1, 5, 6, 8, 10, 12, 13, 16, 17, 21, 22, 23, 25, 26, 27, 29, 30, 34, 36, 40},
                   <<5, 6, 5, 6, 6, 6, 6>>, 0, 1))
    @@ (<<5, 1, 2>> :> Node({0, 2, 3, 4, 7, 9, 11, 14, 15, 18, 19, 20, 24, 28, 31, 32, 33, 35, 37, 38} \cup TURN_BIT,
                   {1, 5, 6, 8, 10, 12, 13, 16, 17, 21, 22, 23, 25, 26, 27, 29, 30, 34, 36, 39},
                   <<5, 5, 6, 6, 6, 6, 6>>, 0, 1))
    @@ (<<5, 2>> :> Node({0, 2, 3, 4, 7, 9, 11, 14, 15, 18, 19, 20, 24, 28, 31, 32, 35, 37, 38, 39},
                   {1, 5, 6, 8, 10, 12, 13, 16, 17, 21, 22, 23, 25, 26, 27, 29, 30, 34, 36} \cup TURN_BIT,
                   <<5, 4, 6, 6, 6, 6, 6>>, 1, 5))
    @@ (<<5, 2, 0>> :> Node({0, 2, 3, 4, 7, 9, 11, 14, 15, 18, 19, 20, 24, 28, 31, 32, 35, 37, 38, 39} \cup TURN_BIT,
                   {1, 5, 6, 8, 10, 12, 13, 16, 17, 21, 22, 23, 25, 26, 27, 29, 30, 34, 36, 41},
                   <<6, 4, 6, 6, 6, 6, 6>>, 0, 3))
    @@ (<<5, 2, 0, 1>> :> Node({0, 2, 3, 4, 7, 9, 11, 14, 15, 18, 19, 20, 24, 28, 31, 32, 33, 35, 37, 38, 39},
                   {1, 5, 6, 8, 10, 12, 13, 16, 17, 21, 22, 23, 25, 26, 27, 29, 30, 34, 36, 41} \cup TURN_BIT,
                   <<6, 5, 6, 6, 6, 6, 6>>, 0, 2))
    @@ (<<5, 2, 0, 1, 1>> :> Node({0, 2, 3, 4, 7, 9, 11, 14, 15, 18, 19, 20, 24, 28, 31, 32, 33, 35, 37, 38, 39} \cup TURN_BIT,
                   {1, 5, 6, 8, 10, 12, 13, 16, 17, 21, 22, 23, 25, 26, 27, 29, 30, 34, 36, 40, 41},
                   <<6, 6, 6, 6, 6, 6, 6>>, 0, 1))
    @@ (<<5, 2, 1>> :> Node({0, 2, 3, 4, 7, 9, 11, 14, 15, 18, 19, 20, 24, 28, 31, 32, 35, 37, 38, 39} \cup TURN_BIT,
                   {1, 5, 6, 8, 10, 12, 13, 16, 17, 21, 22, 23, 25, 26, 27, 29, 30, 33, 34, 36},
                   <<5, 5, 6, 6, 6, 6, 6>>, 1, 1))

\* the tree of the engine playing PLAYER_A with budget 16 after 39 disks, when
\* columns 1, 2 and 5 have one free cell each; the calls and their returns:
\* init_MCTS(0, 16) = 3; input_MCTS(4) = 1; input_MCTS(5) = 6; input_MCTS(3) =
\* 3; input_MCTS(1) = 0; input_MCTS(2) = 4; input_MCTS(4) = 1; input_MCTS(3) =
\* 0; input_MCTS(2) = 6; input_MCTS(0) = 6; input_MCTS(6) = 2; input_MCTS(1) =
\* 1; input_MCTS(2) = 4; input_MCTS(5) = 2; input_MCTS(4) = 0; input_MCTS(0) =
\* 0; input_MCTS(3) = 3; input_MCTS(4) = 5; input_MCTS(6) = 5; input_MCTS(6) =
\* 5;
PickA16 ==
    (<<>> :> Node({0, 3, 5, 6, 7, 9, 13, 14, 15, 17, 18, 19, 22, 23, 27, 29, 32, 33, 38, 41},
                {1, 2, 4, 8, 10, 11, 12, 16, 20, 21, 24, 25, 26, 28, 30, 31, 34, 35, 37} \cup TURN_BIT,
                <<6, 5, 5, 6, 6, 5, 6>>, 3, 10))
    @@ (<<1>> :> Node({0, 3, 5, 6, 7, 9, 13, 14, 15, 17, 18, 19, 22, 23, 27, 29, 32, 33, 38, 41} \cup TURN_BIT,
                   {1, 2, 4, 8, 10, 11, 12, 16, 20, 21, 24, 25, 26, 28, 30, 31, 34, 35, 37, 40},
                   <<6, 6, 5, 6, 6, 5, 6>>, 1, 1))
    @@ (<<2>> :> Node({0, 3, 5, 6, 7, 9, 13, 14, 15, 17, 18, 19, 22, 23, 27, 29, 32, 33, 38, 41} \cup TURN_BIT,
                   {1, 2, 4, 8, 10, 11, 12, 16, 20, 21, 24, 25, 26, 28, 30, 31, 34, 35, 37, 39},
                   <<6, 5, 6, 6, 6, 5, 6>>, 1, 3))
    @@ (<<2, 1>> :> Node({0, 3, 5, 6, 7, 9, 13, 14, 15, 17, 18, 19, 22, 23, 27, 29, 32, 33, 38, 40, 41},
                   {1, 2, 4, 8, 10, 11, 12, 16, 20, 21, 24, 25, 26, 28, 30, 31, 34, 35, 37, 39} \cup TURN_BIT,
                   <<6, 6, 6, 6, 6, 5, 6>>, 0, 1))
    @@ (<<2, 5>> :> Node({0, 3, 5, 6, 7, 9, 13, 14, 15, 17, 18, 19, 22, 23, 27, 29, 32, 33, 36, 38, 41, 61},
                   {1, 2, 4, 8, 10, 11, 12, 16, 20, 21, 24, 25, 26, 28, 30, 31, 34, 35, 37, 39} \cup TURN_BIT,
                   <<6, 5, 6, 6, 6, 6, 6>>, 0, 1))
    @@ (<<5>> :> Node({0, 3, 5, 6, 7, 9, 13, 14, 15, 17, 18, 19, 22, 23, 27, 29, 32, 33, 38, 41} \cup TURN_BIT,
                   {1, 2, 4, 8, 10, 11, 12, 16, 20, 21, 24, 25, 26, 28, 30, 31, 34, 35, 36, 37},
                   <<6, 5, 5, 6, 6, 6, 6>>, 0, 5))
    @@ (<<5, 1>> :> Node({0, 3, 5, 6, 7, 9, 13, 14, 15, 17, 18, 19, 22, 23, 27, 29, 32, 33, 38, 40, 41},
                   {1, 2, 4, 8, 10, 11, 12, 16, 20, 21, 24, 25, 26, 28, 30, 31, 34, 35, 36, 37} \cup TURN_BIT,
                   <<6, 6, 5, 6, 6, 6, 6>>, 0, 2))
    @@ (<<5, 1, 2>> :> Node({0, 3, 5, 6, 7, 9, 13, 14, 15, 17, 18, 19, 22, 23, 27, 29, 32, 33, 38, 40, 41} \cup TURN_BIT,
                   {1, 2, 4, 8, 10, 11, 12, 16, 20, 21, 24, 25, 26, 28, 30, 31, 34, 35, 36, 37, 39},
                   <<6, 6, 6, 6, 6, 6, 6>>, 0, 1))
    @@ (<<5, 2>> :> Node({0, 3, 5, 6, 7, 9, 13, 14, 15, 17, 18, 19, 22, 23, 27, 29, 32, 33, 38, 39, 41},
                   {1, 2, 4, 8, 10, 11, 12, 16, 20, 21, 24, 25, 26, 28, 30, 31, 34, 35, 36, 37} \cup TURN_BIT,
                   <<6, 5, 6, 6, 6, 6, 6>>, 0, 2))
    @@ (<<5, 2, 1>> :> Node({0, 3, 5, 6, 7, 9, 13, 14, 15, 17, 18, 19, 22, 23, 27, 29, 32, 33, 38, 39, 41} \cup TURN_BIT,
                   {1, 2, 4, 8, 10, 11, 12, 16, 20, 21, 24, 25, 26, 28, 30, 31, 34, 35, 36, 37, 40},
                   <<6, 6, 6, 6, 6, 6, 6>>, 0, 1))

\* the engines the exploration starts from: the one no call has touched, and
\* those of the replayed games, which only a build whose turn test reads the
\* turn bit can reach
StartEngines ==
    {NoEngine}
    \cup (IF shift_ub = "wrap"
          THEN {Engine("ready", PLAYER_A, 16, EndgameA16),
                Engine("ready", PLAYER_B, 16, EndgameB16),
                Engine("ready", PLAYER_A, 72, EndgameA72),
                Engine("ready", PLAYER_B, 72, EndgameB72),
                Engine("ready", PLAYER_B, 72, MergeB72),
                Engine("ready", PLAYER_A, 72, PickA72),
                Engine("ready", PLAYER_A, 16, PickA16)}
          ELSE {})

SideArgs == {PLAYER_A, PLAYER_B, DRAW}
\* the budgets handed to init_MCTS: the largest that is refused, and the
\* accepted ones up to MaxBudget; a budget of 8 leaves no pass to the loop of
\* MCTS(), under a budget of 9 it runs once on a root of one visit
BudgetArgs == 7 .. MaxBudget
StepBudgets == 7 .. MaxStepBudget
\* the columns handed to input_MCTS: every column and one on either side
HumanCols == -1 .. ROW_LENGTH

Init ==
    /\ shift_ub \in ShiftOutcomes
    /\ game = game_init
    /\ ret = {}
    /\ moves = 0
    /\ eng \in StartEngines
    /\ call = NoCall
    /\ heap = NoHeap
    /\ step = NoStep

InitMCTS(playing_as, max_visits) ==
    /\ eng.status = "uninit"
    /\ \E o \in init_MCTS(playing_as, max_visits) :
          /\ eng' = o.eng
          /\ ret' = o.ret
          /\ call' = o.call
    /\ UNCHANGED <<shift_ub, game, moves, heap, step>>

\* moves counts the calls of input_MCTS
InputMCTS(col) ==
    /\ eng.status = "ready"
    /\ moves < MaxInputs
    /\ \E o \in input_MCTS(col) :
          /\ eng' = o.eng
          /\ ret' = o.ret
          /\ call' = o.call
    /\ moves' = moves + 1
    /\ UNCHANGED <<shift_ub, game, heap, step>>

DestroyMCTS ==
    /\ eng.status \in {"uninit", "ready", "destroyed"}
    /\ \E o \in destroy_MCTS :
          /\ eng' = o.eng
          /\ ret' = o.ret
          /\ call' = o.call
    /\ UNCHANGED <<shift_ub, game, moves, heap, step>>

Next ==
    \/ \E playing_as \in SideArgs, max_visits \in BudgetArgs : InitMCTS(playing_as, max_visits)
    \/ \E col \in HumanCols : InputMCTS(col)
    \/ DestroyMCTS

Spec == Init /\ [][Next]_vars

-----------------------------------------------------------------------------
(* The engine statement by statement: the calls of init_MCTS and input_MCTS
   cut at the loop of MCTS(), the three steps of its body, the loops of
   progress_in_tree and the change of tree_root *)

SearchInit == Init

\* a loop test without the cap on loops
loop_without_cap == eng.tree[<<>>].nb_visits < eng.MAX_VISITS - 7

\* the test of the while loop of MCTS()
LoopGoesOn ==
    /\ eng.tree[<<>>].nb_visits < eng.MAX_VISITS - 7
    /\ step.loops < eng.MAX_VISITS

\* init_MCTS up to the call of MCTS(), or to its return for PLAYER_B
StepInit(playing_as, max_visits) ==
    /\ eng.status = "uninit"
    /\ step.pc = "idle"
    /\ IF max_visits < 8 \/ playing_as \notin {PLAYER_A, PLAYER_B}
       THEN /\ eng' = eng
            /\ ret' = {ARG_ERROR}
            /\ call' = CallRecord("init_MCTS", <<playing_as, max_visits>>, game_init,
                                  "rejected", <<>>, FALSE)
            /\ step' = NoStep
       ELSE IF ~playout_returns(game_init)
       THEN /\ eng' = Engine("hung", playing_as, max_visits, NoTree)
            /\ ret' = {}
            /\ call' = CallRecord("init_MCTS", <<playing_as, max_visits>>, game_init,
                                  "none", <<>>, FALSE)
            /\ step' = NoStep
       ELSE \E t \in InitialTrees(playing_as) :
               IF playing_as = PLAYER_A
               THEN /\ eng' = Engine("running", playing_as, max_visits, t)
                    /\ ret' = {}
                    /\ call' = CallRecord("init_MCTS", <<playing_as, max_visits>>,
                                          game_init, "search", <<>>, FALSE)
                    /\ step' = StepRecord("loop", "search", "none", 0, 0, <<>>, 0, 0)
               ELSE /\ eng' = Engine("ready", playing_as, max_visits, t)
                    /\ ret' = {ROW_LENGTH}
                    /\ call' = CallRecord("init_MCTS", <<playing_as, max_visits>>,
                                          game_init, "none", <<>>, FALSE)
                    /\ step' = NoStep
    /\ UNCHANGED <<shift_ub, game, moves, heap>>

\* input_MCTS(col) up to its first call of progress_in_tree
StepInput(col) ==
    /\ eng.status = "ready"
    /\ step.pc = "idle"
    /\ moves < MaxInputs
    /\ moves' = moves + 1
    /\ IF col < 0 \/ col >= ROW_LENGTH
       THEN /\ eng' = eng
            /\ ret' = {ARG_ERROR}
            /\ call' = CallRecord("input_MCTS", <<col>>, eng.tree[<<>>].state,
                                  "rejected", <<>>, FALSE)
            /\ step' = NoStep
       ELSE IF <<col>> \notin DOMAIN eng.tree
       THEN /\ eng' = eng
            /\ ret' = {-1}
            /\ call' = CallRecord("input_MCTS", <<col>>, eng.tree[<<>>].state,
                                  "rejected", <<>>, FALSE)
            /\ step' = NoStep
       ELSE /\ eng' = [eng EXCEPT !.status = "running"]
            /\ ret' = {}
            /\ call' = CallRecord("input_MCTS", <<col>>, eng.tree[<<>>].state,
                                  "none", <<col>>, FALSE)
            /\ step' = StepRecord("merge", "none", "decide", col, 0, <<>>, 0, 0)
    /\ UNCHANGED <<shift_ub, game, heap>>

\* the loops of progress_in_tree from pair number step.k up to the end of the
\* next body that is not skipped, or to the end of the loops
ScanPairs ==
    /\ step.pc = "merge"
    /\ \E j \in {NextPair(eng.tree, step.col, step.k)} :
          IF j >= ROW_LENGTH * ROW_LENGTH
          THEN /\ eng' = eng
               /\ step' = [step EXCEPT !.pc = "reroot", !.k = j]
          ELSE \E t2 \in MergePair(eng.tree, step.col, j \div ROW_LENGTH,
                                   j % ROW_LENGTH, eng.PLAYING_AS) :
                  /\ eng' = [eng EXCEPT !.tree = t2]
                  /\ step' = [step EXCEPT !.k = j + 1]
    /\ UNCHANGED <<shift_ub, game, ret, moves, call, heap>>

\* the end of progress_in_tree and the statement of the caller it returns to;
\* a selected_node that was freed with the old tree leaves tree_root dangling
Reroot ==
    /\ step.pc = "reroot"
    /\ \E t2 \in Rerooted(eng.tree, step.col, eng.PLAYING_AS) :
          IF BagIn(<<step.col>>, FreedByProgress(eng.tree, step.col))
          THEN /\ \E st \in {"crashed", "undefined"} : eng' = [eng EXCEPT !.status = st]
               /\ ret' = ret
               /\ step' = NoStep
          ELSE IF step.after = "return"
          THEN /\ eng' = [eng EXCEPT !.status = "ready", !.tree = t2]
               /\ ret' = {step.reply}
               /\ step' = NoStep
          ELSE /\ eng' = [eng EXCEPT !.tree = t2]
               /\ ret' = ret
               /\ step' = [step EXCEPT !.pc = IF step.after = "decide" THEN "decide"
                                                ELSE "loop",
                                       !.k = 0, !.loops = 0]
    /\ UNCHANGED <<shift_ub, game, moves, call, heap>>

\* input_MCTS after progress_in_tree(col): the two forced replies, else MCTS()
Decide ==
    /\ step.pc = "decide"
    /\ \E w \in {can_make_connect4_now(eng.tree[<<>>].state)},
          th \in {does_latest_player_threaten_to_connect4(eng.tree[<<>>].state)} :
          IF w >= 0
          THEN /\ step' = StepRecord("merge", "forced", "forced", w, 0, <<>>, 0, w)
               /\ call' = [call EXCEPT !.decided = "win", !.fed = Append(@, w)]
          ELSE IF th >= 0
          THEN /\ step' = StepRecord("merge", "forced", "forced", th, 0, <<>>, 0, th)
               /\ call' = [call EXCEPT !.decided = "threat", !.fed = Append(@, th)]
          ELSE /\ step' = StepRecord("loop", "search", "none", 0, 0, <<>>, 0, 0)
               /\ call' = [call EXCEPT !.decided = "search"]
    /\ UNCHANGED <<shift_ub, game, ret, moves, eng, heap>>

\* the loop test passes: node_t* selected = MCTS_selection(tree_root);  A
\* descent into an empty slot reads the fields of NULL: the process dies
\* there, or goes on with a selection nothing can be said about
Select ==
    /\ step.pc = "loop"
    /\ LoopGoesOn
    /\ \E leaf \in MCTS_selection(eng.tree, <<>>, eng.PLAYING_AS) :
          IF leaf \in DOMAIN eng.tree
          THEN /\ step' = [step EXCEPT !.pc = "expand", !.leaf = leaf]
               /\ eng' = eng
          ELSE /\ step' = [step EXCEPT !.pc = "idle", !.leaf = leaf]
               /\ \E st \in {"crashed", "undefined"} : eng' = [eng EXCEPT !.status = st]
    /\ UNCHANGED <<shift_ub, game, ret, moves, call, heap>>

\* MCTS_expansion_simulation(selected);
Expand ==
    /\ step.pc = "expand"
    /\ step' = [step EXCEPT !.pc = "backprop"]
    /\ \E t2 \in MCTS_expansion_simulation(eng.tree, step.leaf, eng.PLAYING_AS) :
          eng' = [eng EXCEPT !.tree = t2]
    /\ UNCHANGED <<shift_ub, game, ret, moves, call, heap>>

\* MTCS_backpropagation(selected); loops++;
Backpropagate ==
    /\ step.pc = "backprop"
    /\ eng' = [eng EXCEPT !.tree = MTCS_backpropagation(eng.tree, step.leaf,
                                                        eng.PLAYING_AS)]
    /\ step' = [step EXCEPT !.pc = "loop", !.loops = @ + 1]
    /\ UNCHANGED <<shift_ub, game, ret, moves, call, heap>>

\* the loop test fails: the for loop picks the most visited child and MCTS()
\* returns; a forced reply is returned as it is, else the pick goes to
\* progress_in_tree, and MCTS_FAIL makes it read tree_root->children[-2]
LoopExit ==
    /\ step.pc = "loop"
    /\ ~LoopGoesOn
    /\ \E pick \in {MostVisited(eng.tree, 0, 0, -1)} :
          IF step.mode = "forced"
          THEN /\ eng' = [eng EXCEPT !.status = "ready"]
               /\ ret' = {step.reply}
               /\ call' = [call EXCEPT !.childless = ChildCols(eng.tree, <<>>) = {}]
               /\ step' = NoStep
          ELSE IF pick = -1
          THEN /\ \E st \in {"crashed", "undefined"} :
                     /\ eng' = [eng EXCEPT !.status = st]
                     /\ ret' = IF st = "crashed" THEN {} ELSE {MCTS_FAIL}
               /\ call' = [call EXCEPT !.fed = Append(@, MCTS_FAIL),
                                       !.childless = ChildCols(eng.tree, <<>>) = {}]
               /\ step' = NoStep
          ELSE /\ eng' = eng
               /\ ret' = ret
               /\ call' = [call EXCEPT !.fed = Append(@, pick)]
               /\ step' = StepRecord("merge", "search", "return", pick, 0, <<>>,
                                     step.loops, pick)
    /\ UNCHANGED <<shift_ub, game, moves, heap>>

SearchSteps ==
    \/ Select
    \/ Expand
    \/ Backpropagate
    \/ LoopExit
    \/ ScanPairs
    \/ Reroot
    \/ Decide

SearchNext ==
    \/ \E playing_as \in SideArgs, max_visits \in StepBudgets :
          StepInit(playing_as, max_visits)
    \/ \E col \in HumanCols : StepInput(col)
    \/ SearchSteps

SearchSpec == SearchInit /\ [][SearchNext]_vars

\* a call inside MCTS() goes on: the statements of the loop run one after the
\* other without waiting for anything, and every playout of an expansion ends
\* (the engine exists only in a build whose playouts end).  The calls are
\* those of SearchSpec, init_MCTS taking the budgets of the whole calls
SearchFairNext ==
    \/ \E playing_as \in SideArgs, max_visits \in BudgetArgs :
          StepInit(playing_as, max_visits)
    \/ \E col \in HumanCols : StepInput(col)
    \/ SearchSteps

SearchFairSpec ==
    /\ SearchInit /\ [][SearchFairNext]_vars
    /\ WF_vars(Select)
    /\ WF_vars(Expand)
    /\ WF_vars(Backpropagate)
    /\ WF_vars(LoopExit)

-----------------------------------------------------------------------------
(* The search loop when memory runs short: the pass of the loop of MCTS()
   that the first input_MCTS starts for PLAYER_B, where copy() inside a
   playout may return NULL *)

\* the budget: the loop of MCTS() runs once on the new root
AllocBudget == 9

\* init_MCTS(PLAYER_B, AllocBudget) has returned, input_MCTS(col) has made the
\* child of col the root, a node without children, has found neither a win
\* nor a threat and calls MCTS()
AllocInit ==
    /\ shift_ub = "wrap"
    /\ game = game_init
    /\ ret = {}
    /\ moves = 1
    /\ heap = NoHeap
    /\ \E col \in Cols :
          \E t \in UNION { progress_in_tree(t0, col, PLAYER_B) : t0 \in InitialTrees(PLAYER_B) } :
             /\ eng = Engine("running", PLAYER_B, AllocBudget, t)
             /\ call = CallRecord("input_MCTS", <<col>>, game_init, "search", <<col>>, FALSE)
             /\ step = StepRecord("loop", "search", "none", 0, 0, <<>>, 0, 0)

\* for every column, 1 when the playout copy of its node was refused
RefusedFlags(refused) == [i \in 1 .. ROW_LENGTH |-> IF i - 1 \in refused THEN 1 ELSE 0]

\* MCTS_expansion_simulation(selected); where any of the playout copies may
\* be refused; call notes the columns they were refused for
ExpandCopying ==
    /\ step.pc = "expand"
    /\ step' = [step EXCEPT !.pc = "backprop"]
    /\ \E refused \in SUBSET RolloutCols(eng.tree, step.leaf) :
          /\ \E t2 \in MCTS_expansion_simulation_copying(eng.tree, step.leaf,
                                                          eng.PLAYING_AS, refused) :
                 eng' = [eng EXCEPT !.tree = t2]
          /\ call' = [call EXCEPT !.op = "MCTS_expansion_simulation",
                                  !.args = RefusedFlags(refused)]
    /\ UNCHANGED <<shift_ub, game, ret, moves, heap>>

AllocNext ==
    \/ Select
    \/ ExpandCopying
    \/ Backpropagate
    \/ LoopExit

AllocSpec == AllocInit /\ [][AllocNext]_vars

-----------------------------------------------------------------------------
(* Copies: game_t objects on the heap, named by their addresses *)

\* at most MaxObjects game_t objects are allocated at a time
MaxObjects == 3
\* calls explored from one start position
MaxCopyCalls == 3

Addrs == 0 .. (MaxObjects - 1)
\* the columns handed to the calls on the heap: one outside the board, one
\* that is full and two that are free on the nearly full board
CopyCols == {-1, 0, 4, ROW_LENGTH - 1}
NullAddr == -1

\* the addresses malloc may hand out
FreeAddrs(h) == Addrs \ DOMAIN h

\* free(p)
Freed(h, p) == [a \in DOMAIN h \ {p} |-> h[a]]

\* game_init() on the heap: the heap and the pointer it returns, NULL when
\* malloc finds no room
game_init_at(h) ==
    IF FreeAddrs(h) = {} THEN { [heap |-> h, ptr |-> NullAddr] }
    ELSE { [heap |-> (p :> game_init) @@ h, ptr |-> p] : p \in FreeAddrs(h) }

\* game_destroy(game)
game_destroy_at(h, a) == Freed(h, a)

\* a copy that hands back the address it was given
copy_aliased(h, a) == { [heap |-> h, ptr |-> a] }

\* copy(game) on the heap: the heap and the pointer it returns, NULL when
\* malloc finds no room
copy_at(h, a) ==
    IF FreeAddrs(h) = {} THEN { [heap |-> h, ptr |-> NullAddr] }
    ELSE { [heap |-> (p :> copy(h[a])) @@ h, ptr |-> p] : p \in FreeAddrs(h) }

\* play_auto(game, col) on the object at address a
play_auto_at(h, a, col) ==
    [heap |-> [h EXCEPT ![a] = play_auto(h[a], col).game], res |-> play_auto(h[a], col).res]

play_auto_without_update_at(h, a, col) ==
    UNION { IF c.ptr = NullAddr THEN { [heap |-> c.heap, res |-> MEM_ERROR] }
            ELSE { [heap |-> Freed(r.heap, c.ptr), res |-> r.res]
                   : r \in {play_auto_at(c.heap, c.ptr, col)} }
            : c \in copy_at(h, a) }

play_copy_auto_at(h, a, col) ==
    UNION { IF c.ptr = NullAddr THEN { [heap |-> c.heap, ptr |-> NullAddr] }
            ELSE { IF r.res < 0 THEN [heap |-> Freed(r.heap, c.ptr), ptr |-> NullAddr]
                   ELSE [heap |-> r.heap, ptr |-> c.ptr]
                   : r \in {play_auto_at(c.heap, c.ptr, col)} }
            : c \in copy_at(h, a) }

CopyInit ==
    /\ shift_ub \in ShiftOutcomes
    /\ game = game_init
    /\ ret = {}
    /\ moves = 0
    /\ eng = NoEngine
    /\ call = NoCall
    /\ \E g \in StartPositions : heap = (0 :> g)
    /\ step = NoStep

\* one call on the heap: moves counts the calls
HeapCalled(op, args, h, r) ==
    /\ moves < MaxCopyCalls
    /\ heap' = h
    /\ ret' = {r}
    /\ call' = CallRecord(op, args, game_init, "none", <<>>, FALSE)
    /\ moves' = moves + 1
    /\ UNCHANGED <<shift_ub, game, eng, step>>

HeapGameInit ==
    \E c \in game_init_at(heap) : HeapCalled("game_init", <<>>, c.heap, c.ptr)

\* game_destroy returns nothing; the caller hands it objects it holds
HeapGameDestroy(a) ==
    /\ moves < MaxCopyCalls
    /\ heap' = game_destroy_at(heap, a)
    /\ ret' = {}
    /\ call' = CallRecord("game_destroy", <<a>>, game_init, "none", <<>>, FALSE)
    /\ moves' = moves + 1
    /\ UNCHANGED <<shift_ub, game, eng, step>>

HeapCopy(a) ==
    \E c \in copy_at(heap, a) : HeapCalled("copy", <<a>>, c.heap, c.ptr)

HeapPlay(a, player, col) ==
    \E r \in {play(heap[a], player, col)} :
        HeapCalled("play", <<a, player, col>>, [heap EXCEPT ![a] = r.game], r.res)

HeapPlayAutoWithoutUpdate(a, col) ==
    \E r \in play_auto_without_update_at(heap, a, col) :
        HeapCalled("play_auto_without_update", <<a, col>>, r.heap, r.res)

HeapPlayCopyAuto(a, col) ==
    \E r \in play_copy_auto_at(heap, a, col) :
        HeapCalled("play_copy_auto", <<a, col>>, r.heap, r.ptr)

CopyNext ==
    \/ HeapGameInit
    \/ \E a \in DOMAIN heap : HeapGameDestroy(a)
    \/ \E a \in DOMAIN heap : HeapCopy(a)
    \/ \E a \in DOMAIN heap, player \in PlayerArgs, col \in CopyCols : HeapPlay(a, player, col)
    \/ \E a \in DOMAIN heap, col \in CopyCols : HeapPlayAutoWithoutUpdate(a, col)
    \/ \E a \in DOMAIN heap, col \in CopyCols : HeapPlayCopyAuto(a, col)

CopySpec == CopyInit /\ [][CopyNext]_vars

-----------------------------------------------------------------------------
(* Properties of the game *)

\* the latest call returned r
Returned(r) == ret = {r}
Accepted == ret \cap {0, 1, 2} # {}
Rejected == ret \cap {ARG_ERROR, -3, -2, -1} # {}

\* the cell (col, row) holds a disk of the grid
Disk(grid, col, row) ==
    col \in Cols /\ row \in Rows /\ ((row + 1) * ROW_LENGTH - col - 1) \in grid

\* four collinear consecutive disks of one grid on the 7x6 board
Directions == {<<1, 0>>, <<0, 1>>, <<1, 1>>, <<1, -1>>}
HasFour(grid) ==
    \E col \in Cols, row \in Rows, d \in Directions :
        \A i \in 0 .. 3 : Disk(grid, col + i * d[1], row + i * d[2])

Finished(g) ==
    \/ 61 \in g.gridA
    \/ 61 \in g.gridB
    \/ \A col \in Cols : Disk(g.gridA \cup g.gridB, col, COL_HEIGHT - 1)

\* the grid of the player who made the latest accepted move: the one without the turn
MoverGrid(g) == IF 62 \in g.gridA THEN g.gridB ELSE g.gridA

\* C1: a call that returns a rejection (ARG_ERROR, -3, -2, -1) leaves both grids
\* and the seven column counters as they were; the game changes only in a call
\* that returns 0, 1 or 2.
C1_RejectedPlayKeepsState ==
    [][ /\ (ret' \cap {ARG_ERROR, -3, -2, -1} # {}) => game' = game
        /\ game' # game => (ret' \cap {0, 1, 2} # {}) ]_vars

\* a full column was just refused on a game that has moved on from its start
C1_Witness == Returned(-2) /\ moves >= 1

\* play returns 1 exactly when the mover then has four in a row, and flags the win
WinExactlyAtFour ==
    Accepted => /\ Returned(1) <=> HasFour(MoverGrid(game))
                /\ Returned(1) <=> 61 \in MoverGrid(game)
                /\ ~HasFour((game.gridA \cup game.gridB) \ MoverGrid(game))

\* C2: along accepted moves play returns 1 (and sets the mover's win flag) exactly
\* at the move after which the mover has four collinear disks, and the moves
\* A:0, B:6, A:0, B:6, A:0, B:6, A:0 from the empty board return 0 six times and then 1.
C2_WinAtFourAndExample ==
    /\ WinExactlyAtFour
    /\ \A k \in 0 .. 6 :
          game = ExampleGame(k) =>
              LET r == play(game, k % 2, IF k % 2 = 0 THEN 0 ELSE ROW_LENGTH - 1)
              IN  /\ r.res = (IF k = 6 THEN 1 ELSE 0)
                  /\ r.game = ExampleGame(k + 1)

\* on a build whose turn test reads the turn bit, the whole of C2 holds
WinAtFourOnWrappingBuild == shift_ub = "wrap" => C2_WinAtFourAndExample

\* C9: once a win flag is set or the top row is full, every call of play or
\* play_auto with a valid player and column returns -3 and leaves the game as it
\* is; a win flag stays set and the two win flags are never both set.
C9_FinishedGameIsFinal ==
    /\ [](~(61 \in game.gridA /\ 61 \in game.gridB))
    /\ [][ Finished(game) =>
             /\ game' = game
             /\ \A col \in Cols :
                   /\ PlayAuto(col) => ret' = {-3}
                   /\ \A player \in {PLAYER_A, PLAYER_B} : Play(player, col) => ret' = {-3}
         ]_vars

\* a drawn game (full top row, no winner) has just refused a call
C9_Witness ==
    /\ Returned(-3)
    /\ ~(61 \in game.gridA \/ 61 \in game.gridB)
    /\ Finished(game)

\* C10: exactly one grid carries the turn flag (bit 62); it starts on A, passes
\* to the other grid at every accepted move (0, 1 or 2) and stays at every
\* rejected one.
C10_TurnFlagAlternates ==
    /\ 62 \in game_init.gridA
    /\ []((62 \in game.gridA) # (62 \in game.gridB))
    /\ [][ /\ (ret' \cap {0, 1, 2} # {}) => ((62 \in game'.gridA) # (62 \in game.gridA))
           /\ (ret' \cap {ARG_ERROR, -3, -2, -1} # {}) =>
                  ((62 \in game'.gridA) <=> (62 \in game.gridA)) ]_vars

\* a winning move by A has just handed the turn to B
C10_Witness == Returned(1) /\ 61 \in game.gridA /\ 62 \in game.gridB

\* the board cells of a grid: bits 0 .. 41
CellBits(grid) == grid \cap (0 .. (ROW_LENGTH * COL_HEIGHT - 1))

\* C11: no board cell is set in both grids; each column counter is at most 6
\* and equals the number of cells set in its column over both grids, these
\* being rows 0 .. counter - 1.
C11_CellsMatchCounters ==
    /\ CellBits(game.gridA) \cap CellBits(game.gridB) = {}
    /\ \A col \in Cols :
          /\ game.cols_occupation[col] \in 0 .. COL_HEIGHT
          /\ \A row \in Rows :
                Disk(game.gridA \cup game.gridB, col, row)
                    <=> row < game.cols_occupation[col]
          /\ Cardinality({ row \in Rows : Disk(game.gridA \cup game.gridB, col, row) })
                 = game.cols_occupation[col]

\* a move has just filled a column
C11_Witness ==
    /\ Accepted
    /\ moves >= 1
    /\ \E col \in Cols : game.cols_occupation[col] = COL_HEIGHT

RECURSIVE SumCounters(_, _)
SumCounters(g, col) ==
    IF col >= ROW_LENGTH THEN 0 ELSE g.cols_occupation[col] + SumCounters(g, col + 1)

\* C12: on a game created by game_init the seven column counters sum to the
\* number of accepted calls (moves); an accepted call adds one to the sum and
\* a rejected call leaves it, so it never decreases.
C12_CountersSumToAcceptedCalls ==
    /\ (game = game_init) => [](SumCounters(game, 0) = moves)
    /\ [][ SumCounters(game', 0)
             = SumCounters(game, 0) + (IF ret' \cap {0, 1, 2} # {} THEN 1 ELSE 0) ]_vars

\* MaxMoves calls were accepted on a game that started empty
C12_Witness ==
    /\ moves = MaxMoves
    /\ SumCounters(game, 0) = MaxMoves
    /\ Accepted

TopRowFull(g) == \A col \in Cols : Disk(g.gridA \cup g.gridB, col, COL_HEIGHT - 1)

\* C13: winner gives DRAW exactly for a full top row without a win flag; play
\* returns 2 exactly for an accepted move that fills the top row without a
\* four in a row, and 1 when the move that fills it wins.
C13_DrawExactlyOnFullTopRow ==
    /\ winner(game) = DRAW
           <=> (TopRowFull(game) /\ 61 \notin game.gridA /\ 61 \notin game.gridB)
    /\ Returned(2) <=> (Accepted /\ TopRowFull(game) /\ ~HasFour(MoverGrid(game)))
    /\ (Accepted /\ TopRowFull(game) /\ HasFour(MoverGrid(game))) => Returned(1)

\* the move that filled the last cell won
C13_Witness == Returned(1) /\ TopRowFull(game) /\ HasFour(MoverGrid(game))

\* C14: copy returns a new object equal to its source; a play on one object
\* leaves every other object as it was, so copy and source never change
\* together; play_auto_without_update and play_copy_auto leave their input
\* (and every other object) unchanged whatever they return.
C14_CopyIsIndependent ==
    [][ /\ call'.op = "copy" =>
              \A p \in ret' \ {NullAddr} :
                  /\ p \notin DOMAIN heap
                  /\ DOMAIN heap' = DOMAIN heap \cup {p}
                  /\ heap'[p] = heap[call'.args[1]]
                  /\ \A a \in DOMAIN heap : heap'[a] = heap[a]
        /\ call'.op = "play" =>
              /\ DOMAIN heap' = DOMAIN heap
              /\ \A b \in DOMAIN heap \ {call'.args[1]} : heap'[b] = heap[b]
        /\ call'.op = "play_auto_without_update" => heap' = heap
        /\ call'.op = "play_copy_auto" =>
              /\ \A a \in DOMAIN heap : a \in DOMAIN heap' /\ heap'[a] = heap[a]
              /\ ret' = {NullAddr} => heap' = heap
              /\ \A p \in ret' \ {NullAddr} :
                    /\ p \notin DOMAIN heap
                    /\ DOMAIN heap' = DOMAIN heap \cup {p}
      ]_vars

\* an accepted move on one of two objects has made a copy differ from its source
C14_Witness ==
    /\ call.op = "play"
    /\ Accepted
    /\ \E a \in DOMAIN heap, b \in DOMAIN heap : a # b /\ heap[a] # heap[b]

-----------------------------------------------------------------------------
(* Properties of the engine *)

\* the latest call was input_MCTS and it took the opponent's column
InputAccepted == call.op = "input_MCTS" /\ call.decided \in {"win", "threat", "search"}

\* the root's game once the opponent's column of the latest call is applied
AfterOpponent == play_auto(call.before, call.args[1]).game

\* the columns with which the side to move in g wins at once
WinningColsIn(g) == { c \in Cols : play_auto(g, c).res = 1 }

\* the pairs (m1, m2): m1 a legal move in g that does not end the game, m2 # m1
\* a winning answer of the other side
ThreatPairsIn(g) ==
    UNION { UNION { { <<m1, m2>> : m2 \in WinningColsIn(r.game) \ {m1} }
                    : r \in { x \in {play_auto(g, m1)} : x.res = 0 } }
            : m1 \in Cols }

\* C3: input_MCTS(col) with col in [0,6] returns -1 only if the column is full
\* or the game is finished in the root's state: every legal column is accepted.
C3_RejectsOnlyIllegalColumns ==
    (call.op = "input_MCTS" /\ Returned(-1))
        => play_auto(call.before, call.args[1]).res < 0

\* C4: when input_MCTS(col) returns r >= 0, r is a column, r is legal after
\* col, and the new root's game is the previous root's game with col and then
\* r applied by play_auto.
C4_ReplyKeepsRootInStep ==
    (call.op = "input_MCTS" /\ \E r \in ret : r >= 0)
        => \A r \in ret :
              /\ r \in Cols
              /\ eng.status = "ready"
              /\ play_auto(AfterOpponent, r).res >= 0
              /\ eng.tree[<<>>].state = play_auto(AfterOpponent, r).game

C4_Witness ==
    /\ call.op = "input_MCTS"
    /\ \E r \in ret : r >= 0
    /\ moves >= 2

\* C5: if the root has no present child when the search loop of input_MCTS
\* stops, the call returns MCTS_FAIL and progress_in_tree is handed no column
\* outside [0,6].
C5_NoChildMeansSearchFailure ==
    (call.op = "input_MCTS" /\ call.decided = "search" /\ call.childless)
        => /\ Returned(MCTS_FAIL)
           /\ \A i \in DOMAIN call.fed : call.fed[i] \in Cols

\* C6: if some legal column wins at once for the engine after the opponent's
\* move, input_MCTS returns the lowest such column and leaves the won position
\* as a root without children.
C6_ImmediateWinIsTaken ==
    InputAccepted
        => \A wins \in {WinningColsIn(AfterOpponent)} :
              wins # {}
                  => /\ call.decided = "win"
                     /\ \E r \in wins :
                           /\ \A k \in wins : r <= k
                           /\ Returned(r)
                           /\ eng.tree[<<>>].state = play_auto(AfterOpponent, r).game
                     /\ winner(eng.tree[<<>>].state) = eng.PLAYING_AS
                     /\ ChildCols(eng.tree, <<>>) = {}

C6_Witness ==
    /\ InputAccepted
    /\ WinningColsIn(AfterOpponent) # {}
    /\ call.decided = "win"
    /\ ret # {}

\* C7: with no immediate engine win, input_MCTS answers a threat pair
\* (m1, m2) with a column m2 of such a pair; without any pair the threat
\* detector finds nothing and the search loop decides.
C7_ThreatIsBlocked ==
    InputAccepted
        => \A after \in {AfterOpponent} :
              WinningColsIn(after) = {}
                  => \A pairs \in {ThreatPairsIn(after)} :
                        IF pairs # {}
                        THEN /\ call.decided = "threat"
                             /\ \E pr \in pairs : Returned(pr[2])
                        ELSE call.decided = "search"

C7_Witness ==
    /\ InputAccepted
    /\ WinningColsIn(AfterOpponent) = {}
    /\ ThreatPairsIn(AfterOpponent) # {}
    /\ call.decided = "threat"
    /\ ret # {}

\* C8: for either engine side the playout of an already finished state gives 1
\* exactly when the winner is the engine's side, and 0 for a win of the
\* opponent or a draw.
C8_TerminalPlayoutScoresEngineWin ==
    eng.status = "ready"
        => \A p \in DOMAIN eng.tree :
              winner(eng.tree[p].state) >= 0
                  => MTCS_simulation(eng.tree[p].state, eng.PLAYING_AS, FALSE)
                         = (IF winner(eng.tree[p].state) = eng.PLAYING_AS THEN 1 ELSE 0)

\* init_MCTS was just called with a budget of at least 8 and a valid side
ValidInit ==
    /\ call.op = "init_MCTS"
    /\ call.args[1] \in {PLAYER_A, PLAYER_B}
    /\ call.args[2] >= 8

\* C15: for every budget >= 8 init_MCTS terminates; as PLAYER_A it returns a
\* column legal on the empty board and the root is the position after that
\* move; as PLAYER_B it returns ROW_LENGTH without a search, the root being the
\* empty board with all seven children.
C15_InitTerminates ==
    ValidInit
        => /\ eng.status = "ready"
           /\ call.args[1] = PLAYER_A
                 => \E r \in Cols :
                       /\ Returned(r)
                       /\ play_auto(game_init, r).res = 0
                       /\ eng.tree[<<>>].state = play_auto(game_init, r).game
           /\ call.args[1] = PLAYER_B
                 => /\ Returned(ROW_LENGTH)
                    /\ call.decided = "none"
                    /\ eng.tree[<<>>].state = game_init
                    /\ ChildCols(eng.tree, <<>>) = Cols

\* on a build whose turn test reads the turn bit, the whole of C15 holds
InitTerminatesOnWrappingBuild == shift_ub = "wrap" => C15_InitTerminates

\* C16: destroy_MCTS on an engine that was never initialised or is already
\* torn down does nothing: nothing is freed twice and no freed node is read.
C16_DestroyTwiceIsNoOp ==
    call.op = "destroy_MCTS" => eng.status \in {"uninit", "destroyed"}

\* destroy_MCTS before init_MCTS leaves the engine as it was
DestroyBeforeInitIsNoOp ==
    [][ (call'.op = "destroy_MCTS" /\ eng.status = "uninit") => eng' = eng ]_vars

-----------------------------------------------------------------------------
(* Properties of the search and of progress_in_tree, statement by statement *)

\* the counts of the node at path q in tree t, nothing for a node not there yet
VisitsAt(t, q) == IF q \in DOMAIN t THEN t[q].nb_visits ELSE 0
WinsAt(t, q) == IF q \in DOMAIN t THEN t[q].nb_wins ELSE 0

\* the step from one state of the loops of progress_in_tree to the next has
\* run the body of the pair number step'.k - 1
PairDone == step.pc = "merge" /\ step'.pc = "merge"

\* C17: while progress_in_tree runs, no node loses visits or wins: across the
\* body of a pair every node of the tree is kept with counts at least as
\* large, the node "C -> X -> Y" that received a merge and each of its
\* ancestors hold at least what they held before (nothing for a node the body
\* created) plus the counts of the merged node "Y -> X -> C", and the nodes
\* that survive the change of root keep their counts.
C17_MergesOnlyAdd ==
    [][ /\ step.pc = "merge" =>
            \A q \in DOMAIN eng.tree :
               /\ q \in DOMAIN eng'.tree
               /\ eng'.tree[q].nb_visits >= eng.tree[q].nb_visits
               /\ eng'.tree[q].nb_wins >= eng.tree[q].nb_wins
        /\ PairDone =>
            LET c == step.col
                y == (step'.k - 1) \div ROW_LENGTH
                x == (step'.k - 1) % ROW_LENGTH
            IN  <<c, x, y>> \in DOMAIN eng'.tree =>
                   \A i \in 0 .. 3 :
                      LET q == SubSeq(<<c, x, y>>, 1, i)
                      IN  /\ VisitsAt(eng'.tree, q)
                               >= VisitsAt(eng.tree, q) + eng.tree[<<y, x, c>>].nb_visits
                          /\ WinsAt(eng'.tree, q)
                               >= WinsAt(eng.tree, q) + eng.tree[<<y, x, c>>].nb_wins
        /\ (step.pc = "reroot" /\ <<step.col>> \in DOMAIN eng.tree) =>
            \A q \in DOMAIN eng'.tree :
               /\ eng'.tree[q].nb_visits >= eng.tree[<<step.col>> \o q].nb_visits
               /\ eng'.tree[q].nb_wins >= eng.tree[<<step.col>> \o q].nb_wins
      ]_vars

\* the body of a pair has just added the counts of "Y -> X -> C" to
\* "C -> X -> Y"
C17_Witness ==
    /\ step.pc = "merge"
    /\ step.k >= 1
    /\ LET c == step.col
           y == (step.k - 1) \div ROW_LENGTH
           x == (step.k - 1) % ROW_LENGTH
       IN  /\ <<y, x, c>> \in DOMAIN eng.tree
           /\ <<c, x, y>> \in DOMAIN eng.tree
           /\ eng.tree[<<y, x, c>>].nb_visits >= 1
           /\ eng.tree[<<c, x, y>>].nb_visits >= 2

\* the paths of the nodes below the root
ChildPaths == { p \in DOMAIN eng.tree : Len(p) >= 1 }
ParentOf(p) == SubSeq(p, 1, Len(p) - 1)
ColumnOf(p) == p[Len(p)]

\* C18: every child in the tree holds the game that play_auto makes of a copy
\* of its parent's game with the child's column, the move being accepted; its
\* parent's game is not finished and the column is not full in it.  The tree
\* is the one of an engine that is ready or inside a call.
C18_ChildIsParentPlusMove ==
    eng.status \in {"ready", "running"} =>
    \A p \in ChildPaths :
       \A parent \in {eng.tree[ParentOf(p)].state} :
          /\ \A r \in {play_auto(copy(parent), ColumnOf(p))} :
                /\ r.res \in {0, 1, 2}
                /\ r.game = eng.tree[p].state
          /\ parent.cols_occupation[ColumnOf(p)] < COL_HEIGHT
          /\ ~Finished(parent)

\* the search has expanded a leaf of a tree that holds a child whose game is
\* finished and a node with children and a full column
C18_Witness ==
    /\ step.pc = "loop"
    /\ step.loops >= 1
    /\ \E p \in ChildPaths : Finished(eng.tree[p].state)
    /\ \E p \in DOMAIN eng.tree :
          /\ ChildCols(eng.tree, p) # {}
          /\ \E c \in Cols : eng.tree[p].state.cols_occupation[c] = COL_HEIGHT

\* the grid of a player in game g
GridOf(g, player) == IF player = PLAYER_A THEN g.gridA ELSE g.gridB

\* the sums of the counts of the nodes at the paths P of tree t
RECURSIVE SumVisits(_, _)
SumVisits(t, P) ==
    IF P = {} THEN 0
    ELSE LET q == CHOOSE q \in P : TRUE IN t[q].nb_visits + SumVisits(t, P \ {q})

RECURSIVE SumWins(_, _)
SumWins(t, P) ==
    IF P = {} THEN 0
    ELSE LET q == CHOOSE q \in P : TRUE IN t[q].nb_wins + SumWins(t, P \ {q})

\* the children of the node at path L
ChildrenOf(t, L) == { q \in DOMAIN t : Len(q) = Len(L) + 1 /\ IsPrefix(L, q) }

\* the delta <<dWins, dVisits>> after the expansion of the leaf at path L
DeltaAfterExpansion(t, L, as) ==
    IF HasFour(GridOf(t[L].state, as)) THEN <<7, 7>>
    ELSE IF HasFour(GridOf(t[L].state, 1 - as)) THEN <<0, 7>>
    ELSE <<SumWins(t, ChildrenOf(t, L)), SumVisits(t, ChildrenOf(t, L))>>

\* C19: the backpropagation that follows the expansion of leaf L adds one
\* delta to the counts of L and of every ancestor of L, the root included,
\* and leaves every other node, every game and the shape of the tree as they
\* were; the delta is (7, 7) when the engine has four in a row in L's game,
\* (0, 7) when its opponent has, else the sums of nb_wins and nb_visits over
\* the children the expansion gave L.
C19_BackpropagationAddsOneDelta ==
    [][ step.pc = "backprop" =>
          \A d \in {DeltaAfterExpansion(eng.tree, step.leaf, eng.PLAYING_AS)} :
             /\ DOMAIN eng'.tree = DOMAIN eng.tree
             /\ \A q \in DOMAIN eng.tree :
                   /\ eng'.tree[q].state = eng.tree[q].state
                   /\ eng'.tree[q].nb_wins
                        = eng.tree[q].nb_wins + (IF IsPrefix(q, step.leaf) THEN d[1] ELSE 0)
                   /\ eng'.tree[q].nb_visits
                        = eng.tree[q].nb_visits + (IF IsPrefix(q, step.leaf) THEN d[2] ELSE 0)
      ]_vars

\* a backpropagation has run from a leaf below the root whose game the
\* engine's opponent has won, in a tree with nodes off the leaf's path
C19_Witness ==
    /\ step.pc = "loop"
    /\ step.loops >= 1
    /\ Len(step.leaf) >= 1
    /\ HasFour(GridOf(eng.tree[step.leaf].state, 1 - eng.PLAYING_AS))
    /\ eng.tree[step.leaf].nb_visits >= 8
    /\ \E q \in DOMAIN eng.tree : ~IsPrefix(q, step.leaf)

\* the call is inside the while loop of MCTS() or at its test
InSearchLoop == step.pc \in {"loop", "expand", "backprop"}

\* C20: an iteration of the loop of MCTS() starts only when the root has
\* fewer than budget - 7 visits and fewer than budget iterations have run,
\* and the loop is left only when that test fails; the number of iterations
\* never exceeds the budget; and a call inside the loop always leaves it, also
\* when the backpropagated delta leaves the root's visits as they were.
C20_SearchLoopIsBounded ==
    /\ [][ step.pc = "loop" =>
              \A goes_on \in { /\ eng.tree[<<>>].nb_visits < eng.MAX_VISITS - 7
                               /\ step.loops < eng.MAX_VISITS } :
                 /\ step'.pc = "expand" => goes_on
                 /\ step'.pc # "expand" => ~goes_on
         ]_vars
    /\ [](InSearchLoop => step.loops <= eng.MAX_VISITS)
    /\ [][ (step.pc = "backprop" /\ step'.pc = "loop") => step'.loops = step.loops + 1 ]_vars
    /\ (InSearchLoop ~> ~InSearchLoop)

\* the loop has stopped on its cap: budget iterations have run on a drawn
\* root, none of which raised the root's visits
C20_Witness ==
    /\ step.pc = "loop"
    /\ step.loops = eng.MAX_VISITS
    /\ eng.tree[<<>>].nb_visits < eng.MAX_VISITS - 7
    /\ \A col \in Cols : Disk(eng.tree[<<>>].state.gridA \cup eng.tree[<<>>].state.gridB,
                               col, COL_HEIGHT - 1)

\* the while loop of MCTS() has stopped and its for loop is about to pick
LoopStopped ==
    /\ step.pc = "loop"
    /\ ~(eng.tree[<<>>].nb_visits < eng.MAX_VISITS - 7 /\ step.loops < eng.MAX_VISITS)

\* the children of the root
RootCols == ChildCols(eng.tree, <<>>)

\* C21: when the loop of MCTS() has stopped on a root with a child, the
\* column MCTS() returns is that of a child of the root; no child has more
\* visits; no child with as many visits has more wins; no child with as many
\* visits and as many wins stands in a lower column; and that column is the
\* one the caller receives.
C21_PickIsMostVisitedChild ==
    /\ [](LoopStopped /\ RootCols # {} =>
            \A pick \in {MostVisited(eng.tree, 0, 0, -1)} :
               /\ pick \in RootCols
               /\ \A c \in RootCols :
                     /\ eng.tree[<<c>>].nb_visits <= eng.tree[<<pick>>].nb_visits
                     /\ eng.tree[<<c>>].nb_visits = eng.tree[<<pick>>].nb_visits
                           => eng.tree[<<c>>].nb_wins <= eng.tree[<<pick>>].nb_wins
                     /\ ( /\ eng.tree[<<c>>].nb_visits = eng.tree[<<pick>>].nb_visits
                          /\ eng.tree[<<c>>].nb_wins = eng.tree[<<pick>>].nb_wins )
                           => pick <= c)
    /\ [][ (LoopStopped /\ RootCols # {} /\ step.mode = "search") =>
              /\ step'.pc = "merge"
              /\ step'.col = MostVisited(eng.tree, 0, 0, -1)
              /\ step'.reply = step'.col
              /\ <<step'.col>> \in DOMAIN eng'.tree
         ]_vars

\* MCTS() has returned a column that a lower column equals in visits and
\* trails in wins, from a root with an absent child
C21_Witness ==
    /\ step.pc = "merge"
    /\ step.after = "return"
    /\ step.k = 0
    /\ RootCols # Cols
    /\ \E c \in RootCols :
          /\ c < step.col
          /\ eng.tree[<<c>>].nb_visits = eng.tree[<<step.col>>].nb_visits
          /\ eng.tree[<<c>>].nb_wins < eng.tree[<<step.col>>].nb_wins

\* the test of the while loop of MCTS() passes: the next statement is the
\* selection
AboutToSelect ==
    /\ step.pc = "loop"
    /\ eng.tree[<<>>].nb_visits < eng.MAX_VISITS - 7
    /\ step.loops < eng.MAX_VISITS

\* node p of the tree has at most one visit or no child
LeafNode(p) ==
    \/ eng.tree[p].nb_visits <= 1
    \/ \A c \in Cols : Append(p, c) \notin DOMAIN eng.tree

\* the node reached from the root by the columns of path p is a node of the
\* tree, as is every node on the way; it is a leaf and none before it is
EndsAtFirstLeaf(p) ==
    /\ \A i \in 0 .. Len(p) : SubSeq(p, 1, i) \in DOMAIN eng.tree
    /\ LeafNode(p)
    /\ \A i \in 0 .. (Len(p) - 1) : ~LeafNode(SubSeq(p, 1, i))

\* C22: whichever way the random picks among equal scores fall, the
\* selection from the root ends at a node of the tree reached through present
\* children only, which is a leaf and the first leaf on its path; the
\* statement that follows the loop test hands such a node to the expansion
\* and leaves the tree as it was.
C22_SelectionEndsAtFirstLeaf ==
    /\ [](AboutToSelect =>
            \A leaf \in MCTS_selection(eng.tree, <<>>, eng.PLAYING_AS) :
               EndsAtFirstLeaf(leaf))
    /\ [][ AboutToSelect =>
              /\ step'.pc = "expand"
              /\ step'.leaf \in MCTS_selection(eng.tree, <<>>, eng.PLAYING_AS)
              /\ EndsAtFirstLeaf(step'.leaf)
              /\ eng' = eng
         ]_vars

\* the selection has taken the second of several children with the highest
\* score, past an empty slot of the root
C22_Witness ==
    /\ step.pc = "expand"
    /\ Len(step.leaf) >= 1
    /\ \E c \in TiedCols(eng.tree, <<>>, eng.PLAYING_AS) :
          /\ c < step.leaf[1]
          /\ \E e \in Cols : c < e /\ e < step.leaf[1] /\ <<e>> \notin DOMAIN eng.tree

\* column c can be played in game g: the game is not finished and the column
\* is not full
LegalMove(g, c) == ~Finished(g) /\ g.cols_occupation[c] < COL_HEIGHT

\* the paths of tree t strictly below the node at path L
Below(t, L) == { q \in DOMAIN t : IsPrefix(L, q) /\ Len(q) > Len(L) }

\* C23: the expansion of the selected leaf L leaves under L exactly one child
\* for every column that can be played in L's game and nothing else, none
\* when that game is finished; every such child has no child of its own, one
\* visit and no win or one win; L keeps its game and its counts, and every
\* node that is not below L is left as it was.
C23_ExpansionMakesLegalChildren ==
    [][ step.pc = "expand" =>
          \A L \in {step.leaf} :
             /\ \A c \in Cols :
                   Append(L, c) \in DOMAIN eng'.tree <=> LegalMove(eng.tree[L].state, c)
             /\ Below(eng'.tree, L) = { Append(L, c) : c \in ChildCols(eng'.tree, L) }
             /\ \A q \in Below(eng'.tree, L) :
                   /\ eng'.tree[q].nb_visits = 1
                   /\ eng'.tree[q].nb_wins \in {0, 1}
             /\ Finished(eng.tree[L].state) => Below(eng'.tree, L) = {}
             /\ \A q \in DOMAIN eng.tree \ Below(eng.tree, L) :
                   q \in DOMAIN eng'.tree /\ eng'.tree[q] = eng.tree[q]
             /\ DOMAIN eng'.tree \ Below(eng'.tree, L) = DOMAIN eng.tree \ Below(eng.tree, L)
      ]_vars

\* an expansion has given a leaf below the root, with a full column, a child
\* in each column that can be played, one of them with a won playout
C23_Witness ==
    /\ step.pc = "backprop"
    /\ Len(step.leaf) >= 1
    /\ ChildCols(eng.tree, step.leaf) # {}
    /\ \E c \in Cols : eng.tree[step.leaf].state.cols_occupation[c] = COL_HEIGHT
    /\ \E c \in ChildCols(eng.tree, step.leaf) :
          /\ eng.tree[Append(step.leaf, c)].nb_wins = 1
          /\ winner(eng.tree[Append(step.leaf, c)].state) < 0

\* C24: the end of progress_in_tree(C), C being a move that can be played in
\* the old root's game, leaves a tree whose root holds the old root's game
\* with C played: the old child C with every node below it and all their
\* counts and games when the old root had that child, else a single new node
\* with one visit.  Of the old tree, the old root and every node under a
\* column other than C is freed exactly once, no node under C is freed, and
\* nothing else is.
C24_RerootKeepsOnlyChosenSubtree ==
    [][ (step.pc = "reroot" /\ LegalMove(eng.tree[<<>>].state, step.col)) =>
          \A c \in {step.col} :
             /\ eng'.status \in {"ready", "running"}
             /\ eng'.tree[<<>>].state = play_auto(copy(eng.tree[<<>>].state), c).game
             /\ <<c>> \in DOMAIN eng.tree =>
                   /\ DOMAIN eng'.tree = { Tail(q) : q \in Below(eng.tree, <<>>)
                                                        \ DOMAIN Detached(eng.tree, c) }
                   /\ \A q \in DOMAIN eng'.tree : eng'.tree[q] = eng.tree[<<c>> \o q]
             /\ <<c>> \notin DOMAIN eng.tree =>
                   /\ DOMAIN eng'.tree = {<<>>}
                   /\ eng'.tree[<<>>].nb_visits = 1
                   /\ eng'.tree[<<>>].nb_wins \in {0, 1}
             /\ \A freed \in {FreedByProgress(eng.tree, c)} :
                   /\ BagToSet(freed) \subseteq DOMAIN eng.tree
                   /\ \A q \in DOMAIN eng.tree :
                         CopiesIn(q, freed) = IF Len(q) >= 1 /\ q[1] = c THEN 0 ELSE 1
      ]_vars

\* input_MCTS has made the child of the opponent's column the root, with the
\* nodes two and three levels below it, and stands before its own decision
C24_Witness ==
    /\ step.pc = "decide"
    /\ Len(call.fed) = 1
    /\ \E q \in DOMAIN eng.tree : Len(q) >= 2
    /\ eng.tree[<<>>].state = play_auto(copy(call.before), call.fed[1]).game

\* the pair number i stands for columns Y and X that differ from each other
\* and from C, and the old tree t holds the node "Y -> X -> C"
Qualifies(t, c, i) ==
    LET y == i \div ROW_LENGTH
        x == i % ROW_LENGTH
    IN  /\ y # c /\ x # y /\ x # c
        /\ <<y, x, c>> \in DOMAIN t

\* what the node at path q gained across the step: its counts after it less
\* its counts before it, nothing for a node that was not there
GainedVisits(q) == VisitsAt(eng'.tree, q) - VisitsAt(eng.tree, q)
GainedWins(q) == WinsAt(eng'.tree, q) - WinsAt(eng.tree, q)

\* the nodes on the path "C -> X -> Y" from depth i on that the step created
CreatedFrom(dest, i) ==
    { j \in i .. 3 : j >= 1 /\ SubSeq(dest, 1, j) \notin DOMAIN eng.tree
                            /\ SubSeq(dest, 1, j) \in DOMAIN eng'.tree }

\* C25: a step of the loops of progress_in_tree(C) passes over the pairs for
\* which the columns are not distinct or the node "Y -> X -> C" is absent,
\* changing nothing, and runs the body of the next pair that has one.  When
\* the node "C -> X -> Y" is there after the body, every node on the path
\* from the old root to it has gained the visits of "Y -> X -> C" once, plus
\* one visit for each node the body created at or below it, and the wins of
\* "Y -> X -> C" once, plus the wins the created nodes were given; when it is
\* not, the tree is as it was.  No node off that path is created or changed.
C25_MergeAddsSourceCountsOnce ==
    [][ step.pc = "merge" =>
          \A t \in {eng.tree}, c \in {step.col} :
             /\ \A i \in step.k .. (step'.k - 2) : ~Qualifies(t, c, i)
             /\ step'.pc = "reroot" =>
                   /\ eng'.tree = t
                   /\ \A i \in step.k .. (ROW_LENGTH * ROW_LENGTH - 1) : ~Qualifies(t, c, i)
             /\ step'.pc = "merge" =>
                   \A y \in {(step'.k - 1) \div ROW_LENGTH}, x \in {(step'.k - 1) % ROW_LENGTH} :
                      /\ Qualifies(t, c, step'.k - 1)
                      /\ \A q \in DOMAIN eng'.tree :
                            ~IsPrefix(q, <<c, x, y>>) => q \in DOMAIN t /\ eng'.tree[q] = t[q]
                      /\ DOMAIN t \subseteq DOMAIN eng'.tree
                      /\ \A q \in DOMAIN t : eng'.tree[q].state = t[q].state
                      /\ <<c, x, y>> \notin DOMAIN eng'.tree => eng'.tree = t
                      /\ <<c, x, y>> \in DOMAIN eng'.tree =>
                            \A i \in 0 .. 3 :
                               /\ GainedVisits(SubSeq(<<c, x, y>>, 1, i))
                                    = t[<<y, x, c>>].nb_visits
                                      + Cardinality(CreatedFrom(<<c, x, y>>, i))
                               /\ (GainedWins(SubSeq(<<c, x, y>>, 1, i))
                                     - (IF i = 3 THEN t[<<y, x, c>>].nb_wins
                                        ELSE GainedWins(SubSeq(<<c, x, y>>, 1, i + 1))))
                                  \in (IF i \in CreatedFrom(<<c, x, y>>, i) THEN {0, 1}
                                       ELSE {0})
      ]_vars

\* the body of a pair has created the node "C -> X -> Y" and the one above
\* it and has added the counts of "Y -> X -> C", after a pair it passed over
C25_Witness ==
    /\ step.pc = "merge"
    /\ step.k >= 2
    /\ LET c == step.col
           y == (step.k - 1) \div ROW_LENGTH
           x == (step.k - 1) % ROW_LENGTH
       IN  /\ <<y, x, c>> \in DOMAIN eng.tree
           /\ <<c, x, y>> \in DOMAIN eng.tree
           /\ eng.tree[<<c, x, y>>].nb_visits = eng.tree[<<y, x, c>>].nb_visits + 1
           /\ eng.tree[<<c, x>>].nb_visits = eng.tree[<<y, x, c>>].nb_visits + 2

\* C26: when the body of a pair (Y, X) of progress_in_tree(C) has run and the
\* node "C -> X -> Y" is there after it, so that it was given the counts of
\* "Y -> X -> C", the two nodes hold the same game: the same gridA and gridB,
\* turn and win flags included, and the same cols_occupation.
C26_MergedNodesHoldSameGame ==
    [][ step.pc = "merge" /\ step'.pc = "merge" =>
          \A c \in {step.col}, y \in {(step'.k - 1) \div ROW_LENGTH},
             x \in {(step'.k - 1) % ROW_LENGTH} :
             /\ <<y, x, c>> \in DOMAIN eng.tree
             /\ <<c, x, y>> \in DOMAIN eng'.tree =>
                   \A dst \in {eng'.tree[<<c, x, y>>].state},
                      src \in {eng.tree[<<y, x, c>>].state} :
                      /\ dst.gridA = src.gridA
                      /\ dst.gridB = src.gridB
                      /\ dst.cols_occupation = src.cols_occupation
      ]_vars

\* the body of a pair has added the counts of a node "Y -> X -> C" whose
\* game is finished to a node "C -> X -> Y" it created
C26_Witness ==
    /\ step.pc = "merge"
    /\ step.k >= 1
    /\ LET c == step.col
           y == (step.k - 1) \div ROW_LENGTH
           x == (step.k - 1) % ROW_LENGTH
       IN  /\ y # c /\ x # y /\ x # c
           /\ <<y, x, c>> \in DOMAIN eng.tree
           /\ <<c, x, y>> \in DOMAIN eng.tree
           /\ winner(eng.tree[<<y, x, c>>].state) >= 0
           /\ eng.tree[<<c, x, y>>].state = eng.tree[<<y, x, c>>].state
           /\ eng.tree[<<c, x, y>>].nb_visits > eng.tree[<<y, x, c>>].nb_visits

\* the expansion has just run and the playout copy of column c was refused
CopyRefusedFor(c) ==
    /\ step.pc = "expand" /\ step'.pc = "backprop"
    /\ call'.op = "MCTS_expansion_simulation"
    /\ call'.args[c + 1] = 1

\* C27: when the copy of the game that the playout of a new node needs
\* cannot be allocated during an expansion, the node is there all the same,
\* with nb_visits = 0 and nb_wins = 0, and the search goes on: the engine
\* keeps running, to the backpropagation, and no error is returned.
C27_RefusedCopyGivesZeroEvidenceNode ==
    [][ \A c \in Cols :
           CopyRefusedFor(c) =>
              /\ Append(step.leaf, c) \in DOMAIN eng'.tree
              /\ eng'.tree[Append(step.leaf, c)].nb_visits = 0
              /\ eng'.tree[Append(step.leaf, c)].nb_wins = 0
              /\ eng'.status = "running"
              /\ ret' = {}
      ]_vars

\* a refused playout copy stops nothing and is not reported: the expansion
\* fills the other slots as it does when every copy is granted, the slot of
\* the refused column stays empty, and the call goes on to the
\* backpropagation with nothing returned
RefusedCopyLeavesSlotEmpty ==
    [][ step.pc = "expand" /\ step'.pc = "backprop"
        /\ call'.op = "MCTS_expansion_simulation" =>
           /\ eng'.status = "running"
           /\ ret' = {}
           /\ \A c \in Cols :
                 call'.args[c + 1] = 1 => Append(step.leaf, c) \notin DOMAIN eng'.tree
           /\ \A c \in Cols :
                 call'.args[c + 1] = 0 =>
                    LET q == Append(step.leaf, c)
                        g == play_copy_auto(eng.tree[step.leaf].state, c)
                    IN  /\ q \in DOMAIN eng'.tree <=> ~g.null
                        /\ ~g.null =>
                              \E f \in Favourable(g.val, eng.PLAYING_AS) :
                                 eng'.tree[q]
                                    = create_node_and_simulate(g.val, eng.PLAYING_AS, f)
      ]_vars

\* C28: at every point of every call, whatever side the engine plays, every
\* node of the tree holds no more wins than visits, and both counters are
\* within the range of uint32_t.
C28_WinsNeverExceedVisits ==
    \A q \in DOMAIN eng.tree :
       /\ 0 <= eng.tree[q].nb_wins
       /\ eng.tree[q].nb_wins <= eng.tree[q].nb_visits
       /\ eng.tree[q].nb_visits < 2^16

\* the loop of MCTS() has selected the root, a game the engine has won, and
\* has given it seven visits and seven wins
C28_Witness ==
    /\ step.pc = "loop"
    /\ step.loops >= 1
    /\ winner(eng.tree[<<>>].state) = eng.PLAYING_AS
    /\ eng.tree[<<>>].nb_wins >= 7
    /\ eng.tree[<<>>].nb_visits >= eng.tree[<<>>].nb_wins + 1

\* the visits of the node at q in tree t that neither its creation nor its
\* children account for; between an expansion and its backpropagation (st is
\* the step record) the visits of the new children of the selected leaf are
\* still to be added to the leaf and count as accounted for
ExcessAt(t, st, q) ==
    t[q].nb_visits - 1 - ChildrenVisits(t, q, 0)
    + (IF st.pc = "backprop" /\ st.leaf = q THEN ChildrenVisits(t, q, 0) ELSE 0)

\* the step has put a new root in place of the old one
RootReplaced ==
    step.pc = "reroot" /\ eng'.status \notin {"crashed", "undefined"}

\* the step is the part of init_MCTS that builds the first tree
TreeBuilt == step.pc = "idle" /\ eng'.tree # eng.tree

\* the excess before the step of the node found at q after it: nothing for
\* a node the step created
ExcessBefore(q) ==
    IF TreeBuilt THEN 0
    ELSE IF RootReplaced
    THEN (IF <<step.col>> \o q \in DOMAIN eng.tree
          THEN ExcessAt(eng.tree, step, <<step.col>> \o q) ELSE 0)
    ELSE (IF q \in DOMAIN eng.tree THEN ExcessAt(eng.tree, step, q) ELSE 0)

\* the visits the step gives the node at q beyond those of its children: the
\* visits of "Y -> X -> C" for the node "C -> X -> Y" of a merge, seven for
\* the selected leaf whose game a player has won
ExcessGained(q) ==
    IF step.pc = "merge" /\ step'.pc = "merge"
    THEN (IF q = <<step.col, (step'.k - 1) % ROW_LENGTH, (step'.k - 1) \div ROW_LENGTH>>
          THEN eng.tree[<<(step'.k - 1) \div ROW_LENGTH, (step'.k - 1) % ROW_LENGTH,
                          step.col>>].nb_visits
          ELSE 0)
    ELSE IF step.pc = "backprop" /\ q = step.leaf
            /\ winner(eng.tree[q].state) \in {PLAYER_A, PLAYER_B}
    THEN 7
    ELSE 0

\* C29 as amended: outside the two statements between an expansion and its
\* backpropagation every node holds at least one visit more than its present
\* children together; a node is created with exactly that many, and its
\* surplus grows only when it is the node "C -> X -> Y" of a merge, by the
\* visits of "Y -> X -> C", and when it is selected as a leaf whose game a
\* player has won, by seven.  So equality holds for every node that was
\* neither a merge destination nor a selected won leaf.
C29_VisitsCoverChildrenButForMergesAndBonuses ==
    /\ [](\A q \in DOMAIN eng.tree : ExcessAt(eng.tree, step, q) >= 0)
    /\ [][ \A q \in DOMAIN eng'.tree :
              ExcessAt(eng'.tree, step', q) = ExcessBefore(q) + ExcessGained(q) ]_vars

\* the loop has selected, below the root, a leaf whose game the opponent has
\* won, and has given it seven visits that no child accounts for, while the
\* nodes above it hold one visit more than their children
C29_Witness ==
    /\ step.pc = "loop"
    /\ step.loops >= 1
    /\ step.leaf \in DOMAIN eng.tree
    /\ Len(step.leaf) >= 1
    /\ winner(eng.tree[step.leaf].state) = 1 - eng.PLAYING_AS
    /\ ExcessAt(eng.tree, step, step.leaf) >= 7
    /\ \A i \in 0 .. (Len(step.leaf) - 1) :
          ExcessAt(eng.tree, step, SubSeq(step.leaf, 1, i)) = 0

\* C29 as stated: every node holds at least one visit more than its present
\* children together, with equality for every node that has never been the
\* destination of a merge.  A node with equality has never been one (a merge
\* adds visits no child accounts for), so equality must outlast every step of
\* the search loop.
C29_VisitsCoverChildren ==
    /\ [](step.pc # "backprop" =>
             \A q \in DOMAIN eng.tree :
                eng.tree[q].nb_visits >= 1 + ChildrenVisits(eng.tree, q, 0))
    /\ [][ step.pc \in {"loop", "expand", "backprop"} =>
              \A q \in DOMAIN eng.tree \cap DOMAIN eng'.tree :
                 ExcessAt(eng.tree, step, q) = 0 => ExcessAt(eng'.tree, step', q) = 0 ]_vars

\* the node at q is the selected leaf between its expansion and its
\* backpropagation, when its new children are not yet counted
BeingExpanded(q) == step.pc = "backprop" /\ q = step.leaf

\* C30: every node with a present child holds at least two visits, the
\* selected leaf between its expansion and its backpropagation aside, so a
\* node with a child is never a leaf; the node an expansion is applied to has
\* no present child, and the expansion keeps every node the tree held.
C30_ExpansionOnlyOnChildlessNodes ==
    /\ [](\A q \in DOMAIN eng.tree :
            ChildCols(eng.tree, q) # {} /\ ~BeingExpanded(q) =>
               /\ eng.tree[q].nb_visits >= 2
               /\ ~is_leaf(eng.tree, q))
    /\ [][ step.pc = "expand" =>
              /\ ChildCols(eng.tree, step.leaf) = {}
              /\ \A q \in DOMAIN eng.tree :
                    q \in DOMAIN eng'.tree /\ eng'.tree[q] = eng.tree[q] ]_vars

\* an expansion has given children to a leaf below the root that had none,
\* next to a node that was expanded before and holds its children still
C30_Witness ==
    /\ step.pc = "backprop"
    /\ Len(step.leaf) >= 1
    /\ ChildCols(eng.tree, step.leaf) # {}
    /\ \E q \in DOMAIN eng.tree :
          /\ Len(q) = Len(step.leaf) /\ q # step.leaf
          /\ ChildCols(eng.tree, q) # {}
          /\ eng.tree[q].nb_visits = 1 + ChildrenVisits(eng.tree, q, 0)

====
